---- MODULE Spec2Model ----
(***************************************************************************)
(* A model of the swallow-framework core: the event dispatcher and the     *)
(* command binding of Context (core/events.py, mvcc/context.py), the       *)
(* observable containers (state/observable.py), the state-property         *)
(* descriptor (state/property.py) and the counter example                  *)
(* (examples/counter.py).                                                  *)
(*                                                                         *)
(* Each component has its own specification (SpecDisp, SpecCtx, ...): the  *)
(* variables of the other components stay at their initial values.         *)
(***************************************************************************)
EXTENDS Integers, Sequences, FiniteSets, TLC

VARIABLES listeners, stack, last, calls, execs, lambdas, maps

\* The observable containers, the list objects they wrap, what the change
\* callbacks received during the last call, the last call, and the number of
\* mutations made since the last begin_batch_update.
VARIABLES obs, lists, got, w, muts

\* The caller of a list's batch methods: the begin_batch_update calls it has not
\* yet matched with an end_batch_update, and its recorder: the contents the
\* last notification carried and whether the list was mutated since the chain
\* got its first callback.
VARIABLES opened, heard

\* The class of each model instance, the per-instance map of each state
\* property (StateProperty.data), and the last attribute access.
VARIABLES cls, data, pw, declared, decorators, before

\* The Event objects constructed so far.
VARIABLES events

\* View._context: the context the view holds.
VARIABLES view_context

\* EventDispatcher._listeners of a second dispatcher, the one the context
\* "other" is built on.
VARIABLES other_listeners

dispVars == <<listeners, stack, last, calls, execs, lambdas, maps>>

propVars == <<cls, data, pw, declared, decorators, before, events, view_context, other_listeners>>

obsVars == <<obs, lists, got, w, muts, opened, heard, propVars>>

vars == <<listeners, stack, last, calls, execs, lambdas, maps, obs, lists, got, w, muts, opened, heard, cls, data, pw, declared, decorators, before, events, view_context, other_listeners>>

(***************************************************************************)
(* EventDispatcher                                                         *)
(***************************************************************************)

\* Event names used by the callers of the model.
Names == {"X", "Y"}

Other(n) == IF n = "X" THEN "Y" ELSE "X"

\* Python's recursion limit, scaled down: a dispatch nested deeper than this
\* raises RecursionError inside the listener that made the call.
MaxDepth == 2

\* A listener.  kind says what the callable does when it is invoked:
\*   ok      returns normally
\*   bad     raises an Exception
\*   adder   calls add_listener(event.name, <the ok listener>)
\*   dropper calls remove_listener(event.name, <itself>)
\*   chain   calls dispatch(Event(<the other name>, event.data))
\*   lambda  the wrapper Context.map_command installs for command cmd
\* and two values that are no listeners:
\*   notcallable  a value that is not callable (None, an int)
\*   unhashable   a callable object whose class defines __eq__ and no __hash__
Cb(kind) == [kind |-> kind, cmd |-> "-", id |-> 0]

NoCb == Cb("none")

OkCb == Cb("ok")

Listeners == {Cb("ok"), Cb("bad"), Cb("adder"), Cb("dropper"), Cb("chain")}

\* The values passed where a callback is expected.
ArgCallbacks == Listeners \cup {Cb("notcallable"), Cb("unhashable")}

Event(n, d) == [name |-> n, data |-> d]

\* The values passed where an event name is expected: the names, the empty
\* string, a blank string, and a value that is not a str.
NotAStr == "<not a str>"

ArgNames == Names \cup {"", " ", NotAStr}

\* None, passed where a name is expected.
NoneName == "<None>"

isinstance_str(v) == v \notin {NotAStr, NoneName}

\* str.strip()
str_strip(v) == IF v \in {"", " "} THEN "" ELSE v

\* A value passed where an Event is expected that is none: it stands where
\* the event's name does.
NotEvent == "<not an Event>"

isinstance_Event(ev) == ev.name # NotEvent

\* A value passed where a Command is expected that is none.
NotCommand == "<not a Command>"

isinstance_Command(cmd) == cmd # NotCommand

callable(c) == c.kind # "notcallable"

\* hash(c): a TypeError for the unhashable callable
hashable(c) == c.kind # "unhashable"

\* validate_instance_type, given the outcome of isinstance: the exception raised
validate_instance_type(is_instance) == IF is_instance THEN "none" ELSE "SwallowArgumentError"

\* validate_non_empty_string
validate_non_empty_string(v) ==
    IF ~isinstance_str(v) THEN "SwallowArgumentError"
    ELSE IF str_strip(v) = "" THEN "SwallowArgumentError"
    ELSE "none"

\* validate_callback
validate_callback(c) == IF callable(c) THEN "none" ELSE "SwallowArgumentError"

\* Mutant: the arguments are not validated.
validate_listener_args_skipped(n, c) == "none"

\* The three validations add_listener and remove_listener start with: the
\* exception of the first that fails.
validate_listener_args(n, c) ==
    IF validate_instance_type(isinstance_str(n)) # "none" THEN validate_instance_type(isinstance_str(n))
    ELSE IF validate_non_empty_string(n) # "none" THEN validate_non_empty_string(n)
    ELSE validate_callback(c)

\* The registry of a new dispatcher: a defaultdict(set) with no key.
NoReg == [n \in {} |-> {}]

\* defaultdict.__getitem__: a missing key is inserted with an empty set.
defaultdict_get(reg, n) == IF n \in DOMAIN reg THEN reg ELSE [k \in DOMAIN reg \cup {n} |-> IF k = n THEN {} ELSE reg[k]]

dict_del(reg, n) == [k \in DOMAIN reg \ {n} |-> reg[k]]

\* Mutant: adding a callback that is registered already unregisters it.
add_listener_toggles(reg, n, c) ==
    [defaultdict_get(reg, n) EXCEPT ![n] = IF c \in @ THEN @ \ {c} ELSE @ \cup {c}]

\* add_listener, on a well-formed name and a hashable callable: the new
\* registry.
add_listener(reg, n, c) == [defaultdict_get(reg, n) EXCEPT ![n] = @ \cup {c}]

\* add_listener on any arguments: the new registry and the exception that
\* leaves the call.  self._listeners[event_name] is evaluated, creating the
\* entry, before set.add hashes the callback.
add_listener_call(reg, n, c) ==
    IF validate_listener_args(n, c) # "none" THEN [reg |-> reg, exc |-> validate_listener_args(n, c)]
    ELSE IF ~hashable(c) THEN [reg |-> defaultdict_get(reg, n), exc |-> "TypeError"]
    ELSE [reg |-> add_listener(reg, n, c), exc |-> "none"]

\* set.remove: TypeError when the element cannot be hashed, KeyError when it
\* is absent.
set_remove(s, c) ==
    IF ~hashable(c) THEN [set |-> s, exc |-> "TypeError"]
    ELSE IF c \in s THEN [set |-> s \ {c}, exc |-> "none"]
    ELSE [set |-> s, exc |-> "KeyError"]

\* Mutant: the entry of a name is kept when its last listener goes.
remove_listener_keeps_entry(reg, n, c) ==
    IF n \in DOMAIN reg
    THEN [reg |-> [reg EXCEPT ![n] = set_remove(reg[n], c).set], exc |-> "none"]
    ELSE [reg |-> reg, exc |-> "none"]

\* Mutant: the KeyError of set.remove is not swallowed.
remove_listener_raises(reg, n, c) ==
    IF n \in DOMAIN reg
    THEN LET r == set_remove(reg[n], c)
         IN  IF r.exc # "none" THEN [reg |-> reg, exc |-> r.exc]
             ELSE IF r.set = {} THEN [reg |-> dict_del(reg, n), exc |-> "none"]
             ELSE [reg |-> [reg EXCEPT ![n] = r.set], exc |-> "none"]
    ELSE [reg |-> reg, exc |-> "none"]

\* remove_listener: the new registry and the exception that leaves the call.
\* Only the KeyError of set.remove is caught.
remove_listener(reg, n, c) ==
    IF validate_listener_args(n, c) # "none" THEN [reg |-> reg, exc |-> validate_listener_args(n, c)]
    ELSE IF n \in DOMAIN reg
    THEN LET r == set_remove(reg[n], c)
         IN  IF r.exc \notin {"none", "KeyError"} THEN [reg |-> reg, exc |-> r.exc]
             ELSE IF r.set = {} THEN [reg |-> dict_del(reg, n), exc |-> "none"]
             ELSE [reg |-> [reg EXCEPT ![n] = r.set], exc |-> "none"]
    ELSE [reg |-> reg, exc |-> "none"]

\* Mutant: dispatch reads self._listeners[name] without the membership test.
dispatch_begin_no_guard(reg, n) == [reg |-> defaultdict_get(reg, n), iterate |-> TRUE]

\* dispatch, up to the for statement: the registry, and whether the loop is
\* entered (FALSE: the warning is logged and the call returns).
dispatch_begin(reg, n) == [reg |-> reg, iterate |-> n \in DOMAIN reg]

\* Mutant: the listener's exception is not caught.
dispatch_catches_nothing(exc) == FALSE

\* "except Exception" around callback(event): every exception of the model
\* (Exception, RuntimeError, RecursionError) is an Exception.
dispatch_catches(exc) == exc \in {"Exception", "RuntimeError", "RecursionError", "TypeError"}

\* Mutant: the listener is handed an event without the payload.
dispatch_passes_bare(ev) == Event(ev.name, "None")

\* callback(event): the event the listener receives.
dispatch_passes(ev) == ev

\* Mutant: the loop iterates the listeners of every name.
Frame_any_name(ev, reg) ==
    [event |-> ev, si_used |-> Cardinality(reg[ev.name]), pending |-> UNION {reg[n] : n \in DOMAIN reg}, detached |-> FALSE]

\* The frame of a running dispatch: the event, the set iterator's size at its
\* creation (si_used), the listeners it has still to yield, and whether the set
\* it iterates has been deleted from the registry.
Frame(ev, reg) == [event |-> ev, si_used |-> Cardinality(reg[ev.name]), pending |-> reg[ev.name], detached |-> FALSE]

\* setiter_iternext's check: the set's size differs from si_used.  A deleted set
\* is empty, and si_used is at least 1.
SetChanged(f, reg) == f.detached \/ f.event.name \notin DOMAIN reg \/ Cardinality(reg[f.event.name]) # f.si_used

Depth == Len(stack)

Pop(s) == SubSeq(s, 1, Len(s) - 1)

NoCalls == [c \in {} |-> <<>>]

Record(log, c, x) == [k \in DOMAIN log \cup {c} |-> IF k = c THEN (IF c \in DOMAIN log THEN log[c] ELSE <<>>) \o <<x>> ELSE log[k]]

\* Frames that iterate the live set of name n.
Live(s, n) == {i \in 1..Len(s) : s[i].event.name = n /\ ~s[i].detached}

\* The stack after listener c of the top frame was taken out of its iterator.
Taken(s, c) == [s EXCEPT ![Len(s)].pending = @ \ {c}]

\* The commands of the model: c2's execute raises once it has been called.
Cmds == {"c1", "c2"}

DispIdle ==
    /\ listeners = NoReg
    /\ stack = <<>>
    /\ last = [op |-> "init", name |-> "-", cb |-> NoCb, data |-> "-", before |-> NoReg, status |-> "returned"]
    /\ calls = NoCalls
    /\ execs = NoCalls
    /\ lambdas = 0
    /\ maps = [n \in Names, cmd \in Cmds |-> 0]

\* dispatcher.add_listener(n, c), called from outside any dispatch.
AddListener(n, c) ==
    /\ stack = <<>>
    /\ LET r == add_listener_call(listeners, n, c)
       IN  /\ listeners' = r.reg
           /\ last' = [op |-> "add", name |-> n, cb |-> c, data |-> "-", before |-> listeners,
                       status |-> IF r.exc = "none" THEN "returned" ELSE r.exc]
    /\ calls' = NoCalls
    /\ UNCHANGED <<stack, execs, lambdas, maps, obsVars>>

\* dispatcher.remove_listener(n, c), called from outside any dispatch.
RemoveListener(n, c) ==
    /\ stack = <<>>
    /\ LET r == remove_listener(listeners, n, c)
       IN  /\ listeners' = r.reg
           /\ last' = [op |-> "remove", name |-> n, cb |-> c, data |-> "-", before |-> listeners,
                       status |-> IF r.exc = "none" THEN "returned" ELSE r.exc]
    /\ calls' = NoCalls
    /\ UNCHANGED <<stack, execs, lambdas, maps, obsVars>>

\* Mutant: dispatch does not validate its argument.
dispatch_validates_nothing(ev) == "none"

\* validate_instance_type("event", event, Event)
dispatch_validates(ev) == validate_instance_type(isinstance_Event(ev))

\* dispatcher.dispatch(Event(n, d)), called from outside any dispatch: the call
\* raises when its argument is no Event, returns at once when the name has no
\* entry, and enters the loop otherwise.  caller is the object through which
\* the call came.
DispatchFrom(n, d, caller) ==
    /\ stack = <<>>
    /\ LET b == dispatch_begin(listeners, n)
           v == dispatch_validates(Event(n, d))
       IN  IF v # "none"
           THEN /\ last' = [op |-> "dispatch", name |-> n, cb |-> caller, data |-> d, before |-> listeners, status |-> v]
                /\ UNCHANGED <<listeners, stack>>
           ELSE /\ listeners' = b.reg
                /\ stack' = IF b.iterate THEN <<Frame(Event(n, d), b.reg)>> ELSE <<>>
                /\ last' = [op |-> "dispatch", name |-> n, cb |-> caller, data |-> d, before |-> listeners,
                            status |-> IF b.iterate THEN "running" ELSE "returned"]
    /\ calls' = NoCalls
    /\ execs' = NoCalls
    /\ UNCHANGED <<lambdas, maps, obsVars>>

Dispatch(n, d) == DispatchFrom(n, d, NoCb)

\* An exception exc leaves the listener the top frame of s invoked: the frame's
\* try statement catches it (the loop goes on), or it leaves every dispatch on
\* the stack, each of which runs the same handler.
AfterListener(s, exc) == IF exc = "none" \/ dispatch_catches(exc) THEN s ELSE <<>>

Status(s, exc) == IF s # <<>> THEN "running" ELSE IF exc = "none" \/ dispatch_catches(exc) THEN "returned" ELSE "raised"

CmdRaises(cmd) == cmd = "c2"

\* The wrapper map_command builds: each call builds a new function object.
Lambda(cmd, k) == [kind |-> "lambda", cmd |-> cmd, id |-> k]

\* Mutant: the wrapper passes no payload on.
lambda_payload_none(ev) == "None"

\* lambda event: command.execute(event.data): the argument of execute.
lambda_payload(ev) == ev.data

\* One step of the for statement of the innermost running dispatch.
Step ==
    /\ stack # <<>>
    /\ UNCHANGED <<lambdas, maps, obsVars>>
    /\ LET f == stack[Depth]
           n == f.event.name
       IN  IF SetChanged(f, listeners)
           THEN \* RuntimeError: Set changed size during iteration, raised by
                \* the for statement itself, outside the try.
                /\ stack' = IF Depth = 1 THEN <<>> ELSE AfterListener(Pop(stack), "RuntimeError")
                /\ last' = [last EXCEPT !.status = IF Depth = 1 THEN "raised" ELSE Status(stack', "RuntimeError")]
                /\ UNCHANGED <<listeners, calls, execs>>
           ELSE IF f.pending = {}
           THEN \* The iterator is exhausted: dispatch returns.
                /\ stack' = Pop(stack)
                /\ last' = [last EXCEPT !.status = IF Depth = 1 THEN "returned" ELSE "running"]
                /\ UNCHANGED <<listeners, calls, execs>>
           ELSE \E c \in f.pending :
                /\ calls' = IF Depth = 1 THEN Record(calls, c, dispatch_passes(f.event)) ELSE calls
                /\ CASE c.kind = "ok" ->
                          /\ stack' = Taken(stack, c)
                          /\ UNCHANGED <<listeners, last, execs>>
                     [] c.kind = "bad" ->
                          /\ stack' = AfterListener(Taken(stack, c), "Exception")
                          /\ last' = [last EXCEPT !.status = Status(stack', "Exception")]
                          /\ UNCHANGED <<listeners, execs>>
                     [] c.kind = "adder" ->
                          \* add_listener(event.name, ok): the iterators of the
                          \* set may or may not come to yield the new element.
                          /\ listeners' = add_listener(listeners, n, OkCb)
                          /\ \E seen \in SUBSET Live(stack, n) :
                                stack' = [i \in 1..Depth |->
                                            IF i \in seen /\ OkCb \notin listeners[n]
                                            THEN [Taken(stack, c)[i] EXCEPT !.pending = @ \cup {OkCb}]
                                            ELSE Taken(stack, c)[i]]
                          /\ UNCHANGED <<last, execs>>
                     [] c.kind = "dropper" ->
                          \* remove_listener(event.name, self)
                          /\ listeners' = remove_listener(listeners, n, c).reg
                          /\ stack' = [i \in 1..Depth |->
                                         IF i \in Live(stack, n)
                                         THEN [Taken(stack, c)[i] EXCEPT !.pending = @ \ {c},
                                                                         !.detached = n \notin DOMAIN listeners']
                                         ELSE Taken(stack, c)[i]]
                          /\ UNCHANGED <<last, execs>>
                     [] c.kind = "chain" ->
                          \* dispatch(Event(other, event.data)) from the listener
                          /\ IF Depth >= MaxDepth
                             THEN /\ stack' = AfterListener(Taken(stack, c), "RecursionError")
                                  /\ last' = [last EXCEPT !.status = Status(stack', "RecursionError")]
                                  /\ UNCHANGED listeners
                             ELSE LET b == dispatch_begin(listeners, Other(n))
                                  IN  /\ listeners' = b.reg
                                      /\ stack' = IF b.iterate
                                                  THEN Append(Taken(stack, c), Frame(Event(Other(n), f.event.data), b.reg))
                                                  ELSE Taken(stack, c)
                                      /\ UNCHANGED last
                          /\ UNCHANGED execs
                     [] c.kind = "lambda" ->
                          \* command.execute(event.data)
                          /\ execs' = Record(execs, c.cmd, lambda_payload(dispatch_passes(f.event)))
                          /\ stack' = AfterListener(Taken(stack, c), IF CmdRaises(c.cmd) THEN "Exception" ELSE "none")
                          /\ last' = [last EXCEPT !.status = Status(stack', IF CmdRaises(c.cmd) THEN "Exception" ELSE "none")]
                          /\ UNCHANGED listeners

(***************************************************************************)
(* Observable, ObservableValue, ObservableList                             *)
(***************************************************************************)

\* F applied to v, v being evaluated once: the local variable of a method.
With(v, F(_)) == CHOOSE y \in {F(x) : x \in {v}} : TRUE

\* Python values: an int, the float nan, a reference to an ObservableValue, a
\* reference to a list object, None, and the contents a callback saw in the
\* list it was handed.
PyInt(i) == [t |-> "int", v |-> i, s |-> <<>>]

NaN == [t |-> "nan", v |-> 0, s |-> <<>>]

Ref(k) == [t |-> "obs", v |-> k, s |-> <<>>]

ListRef(id) == [t |-> "list", v |-> id, s |-> <<>>]

None == [t |-> "None", v |-> 0, s |-> <<>>]

Snap(seq) == [t |-> "seq", v |-> 0, s |-> seq]

\* Python's recursion limit, scaled down.
RecLimit == 3

\* a != b, for a plain a and b: nan differs from everything, itself included.
plain_ne(a, b) == a.t = "nan" \/ b.t = "nan" \/ a # b

\* a != b as Python evaluates it, h being the containers: "T", "F", or "E" for
\* a RecursionError.  An ObservableValue compares its _value (__ne__, lines
\* 92-95); a plain left operand returns NotImplemented for an ObservableValue
\* and the reflected __ne__ of the right operand is used.
RECURSIVE PyNe(_, _, _, _)
PyNe(h, a, b, fuel) ==
    IF fuel = 0 THEN "E"
    ELSE IF a.t = "obs"
    THEN PyNe(h, h[a.v].value, IF b.t = "obs" THEN h[b.v].value ELSE b, fuel - 1)
    ELSE IF b.t = "obs"
    THEN PyNe(h, h[b.v].value, a, fuel - 1)
    ELSE IF plain_ne(a, b) THEN "T" ELSE "F"

\* Observable.__init__ / ObservableValue.__init__ / ObservableList.__init__:
\* cbs is the chain _notify_callback composes, in registration order.
Container(kind, value) == [kind |-> kind, value |-> value, cbs |-> <<>>, batch |-> FALSE, pending |-> FALSE]

\* Mutant: a registration takes the place of the earlier ones.
on_change_replaces(o, cb) == [o EXCEPT !.cbs = <<cb>>]

\* Observable.on_change: the combined callback runs the earlier chain, then cb.
on_change(o, cb) == [o EXCEPT !.cbs = Append(@, cb)]

\* _notify_callback(val), the chain cbs being the nest of combined_callback
\* closures on_change built: original_callback(value), then callback(value).
\* The callbacks in the order they are invoked.
RECURSIVE notify_callback(_, _)
notify_callback(cbs, val) ==
    IF cbs = <<>> THEN <<>>
    ELSE notify_callback(SubSeq(cbs, 1, Len(cbs) - 1), val) \o <<cbs[Len(cbs)]>>

\* The callbacks invoked, in order, by the notifications with each of vals.
RECURSIVE notify_calls(_, _)
notify_calls(cbs, vals) ==
    IF vals = <<>> THEN <<>> ELSE notify_callback(cbs, Head(vals)) \o notify_calls(cbs, Tail(vals))

\* Mutant: on_change returns the combined callback.
on_change_returns_combined(cb) == "combined_callback"

\* Observable.on_change: return callback
on_change_returns(cb) == cb

\* A value registered as a change callback that is not callable.
NotCallable == "<not callable>"

\* Change callbacks that raise once they have taken the value.
Raisers == {"boom"}

\* callback(value): calling what is not callable raises TypeError; a raiser
\* raises RuntimeError.
call_raises(cb) == IF cb = NotCallable THEN "TypeError" ELSE IF cb \in Raisers THEN "RuntimeError" ELSE "none"

\* The callback's body is entered: it is handed the value.
entered(cb) == cb # NotCallable

\* The exception that leaves the chain: that of the first callback that raises.
RECURSIVE chain_raises(_)
chain_raises(cbs) ==
    IF cbs = <<>> THEN "none"
    ELSE IF call_raises(Head(cbs)) # "none" THEN call_raises(Head(cbs))
    ELSE chain_raises(Tail(cbs))

\* Mutant: the exception of a callback is caught by the write.
write_raises_isolated(exc, fired, cbs) == exc

\* The exception that leaves a write whose own work raised exc and whose
\* notifications invoked the chain cbs with each of fired.
write_raises(exc, fired, cbs) == IF exc = "none" /\ fired # <<>> THEN chain_raises(cbs) ELSE exc

\* The chain invoked with val: what each change callback has received.  The
\* callbacks registered after one that raises are not invoked.
RECURSIVE Deliver(_, _, _)
Deliver(g, cbs, val) ==
    IF cbs = <<>> THEN g
    ELSE IF call_raises(Head(cbs)) # "none" THEN (IF entered(Head(cbs)) THEN Record(g, Head(cbs), val) ELSE g)
    ELSE Deliver(Record(g, Head(cbs), val), Tail(cbs), val)

RECURSIVE DeliverAll(_, _, _)
DeliverAll(g, cbs, vals) == IF vals = <<>> THEN g ELSE DeliverAll(Deliver(g, cbs, Head(vals)), cbs, Tail(vals))

\* Mutant: the setter stores and notifies without comparing.
value_set_always(h, k, new) == [obs |-> [h EXCEPT ![k].value = new], fired |-> <<new>>, exc |-> "none"]

\* Mutant: the setter notifies with the value it replaced.
value_set_old(h, k, new) ==
    IF PyNe(h, h[k].value, new, RecLimit) = "T"
    THEN [obs |-> [h EXCEPT ![k].value = new], fired |-> <<h[k].value>>, exc |-> "none"]
    ELSE [obs |-> h, fired |-> <<>>, exc |-> "none"]

\* ObservableValue.value's setter on container k: the containers, the values
\* the chain was invoked with, and the exception that leaves the call.
value_set(h, k, new) ==
    LET ne == PyNe(h, h[k].value, new, RecLimit)
    IN  IF ne = "E" THEN [obs |-> h, fired |-> <<>>, exc |-> "RecursionError"]
        ELSE IF ne = "T" THEN [obs |-> [h EXCEPT ![k].value = new], fired |-> <<new>>, exc |-> "none"]
        ELSE [obs |-> h, fired |-> <<>>, exc |-> "none"]

\* Change callbacks that write to the observable they watch: handed 1, "to2"
\* sets the value to 2 and "to0" sets it to 0.
Reactors == {"to2", "to0"}

Trigger == PyInt(1)

Target(cb) == IF cb = "to2" THEN PyInt(2) ELSE PyInt(0)

\* ObservableValue.value's setter on container k and the chain it invokes,
\* the callbacks run to their end one after the other: st holds the
\* containers, what each callback has received and the exception on its way
\* out.  _notify reads _value once and hands that value to the whole chain
\* (line 48), also to the callbacks that run after one that wrote.
RECURSIVE value_set_nested(_, _, _, _)
RECURSIVE notify_nested(_, _, _, _, _)
value_set_nested(st, k, new, fuel) ==
    IF fuel = 0 THEN [st EXCEPT !.exc = "RecursionError"]
    ELSE With(value_set(st.obs, k, new), LAMBDA r :
             IF r.fired = <<>> THEN [st EXCEPT !.obs = r.obs, !.exc = r.exc]
             ELSE notify_nested([st EXCEPT !.obs = r.obs], k, r.obs[k].cbs, r.fired[1], fuel))

\* combined_callback(value) over the chain cbs: original_callback(value),
\* then callback(value); a reactor handed its trigger calls the setter.
notify_nested(st, k, cbs, val, fuel) ==
    IF cbs = <<>> THEN st
    ELSE IF call_raises(Head(cbs)) # "none"
    THEN [st EXCEPT !.exc = call_raises(Head(cbs)),
                    !.got = IF entered(Head(cbs)) THEN Record(@, Head(cbs), val) ELSE @]
    ELSE With(IF Head(cbs) \in Reactors /\ val = Trigger
              THEN value_set_nested([st EXCEPT !.got = Record(@, Head(cbs), val)], k, Target(Head(cbs)), fuel - 1)
              ELSE [st EXCEPT !.got = Record(@, Head(cbs), val)],
              LAMBDA s : IF s.exc # "none" THEN s ELSE notify_nested(s, k, Tail(cbs), val, fuel))

\* Python lists as sequences: the element at index j is seq[j + 1].
MaxLen == 3

Norm(i, len) == IF i < 0 THEN i + len ELSE i

Clamp(i, len) == IF i < 0 THEN 0 ELSE IF i > len THEN len ELSE i

Without(seq, j) == SubSeq(seq, 1, j) \o SubSeq(seq, j + 2, Len(seq))

RECURSIVE Index(_, _, _)
Index(seq, x, j) == IF j >= Len(seq) THEN -1 ELSE IF seq[j + 1] = x THEN j ELSE Index(seq, x, j + 1)

Ok(seq) == [seq |-> seq, exc |-> "none"]

Err(seq, exc) == [seq |-> seq, exc |-> exc]

InRange(i, len) == Norm(i, len) >= 0 /\ Norm(i, len) < len

list_setitem(seq, i, x) == IF InRange(i, Len(seq)) THEN Ok([seq EXCEPT ![Norm(i, Len(seq)) + 1] = x]) ELSE Err(seq, "IndexError")

list_delitem(seq, i) == IF InRange(i, Len(seq)) THEN Ok(Without(seq, Norm(i, Len(seq)))) ELSE Err(seq, "IndexError")

list_insert(seq, i, x) ==
    LET j == Clamp(Norm(i, Len(seq)), Len(seq))
    IN  Ok(SubSeq(seq, 1, j) \o <<x>> \o SubSeq(seq, j + 1, Len(seq)))

list_append(seq, x) == Ok(Append(seq, x))

list_remove(seq, x) == IF Index(seq, x, 0) >= 0 THEN Ok(Without(seq, Index(seq, x, 0))) ELSE Err(seq, "ValueError")

list_extend(seq, xs) == Ok(seq \o xs)

list_clear(seq) == Ok(<<>>)

list_pop(seq, i) == IF InRange(i, Len(seq)) THEN Ok(Without(seq, Norm(i, Len(seq)))) ELSE Err(seq, "IndexError")

\* Mutant: _notify is silent on an empty list.
list_notify_skips_empty(o, seq) ==
    IF o.batch
    THEN [o |-> [o EXCEPT !.pending = TRUE], fired |-> <<>>]
    ELSE [o |-> o, fired |-> IF seq = <<>> THEN <<>> ELSE <<Snap(seq)>>]

\* Mutant: _notify ignores the batch flag.
list_notify_unbatched(o, seq) == [o |-> o, fired |-> <<Snap(seq)>>]

\* ObservableList._notify on a list whose contents are seq: the container and
\* the values the chain was invoked with.
list_notify(o, seq) ==
    IF o.batch
    THEN [o |-> [o EXCEPT !.pending = TRUE], fired |-> <<>>]
    ELSE [o |-> o, fired |-> <<Snap(seq)>>]

begin_batch_update(o) == [o EXCEPT !.batch = TRUE, !.pending = FALSE]

\* Mutant: end_batch_update leaves the batch active.
end_batch_update_stays_active(o, seq) ==
    [o |-> [o EXCEPT !.pending = FALSE], fired |-> IF o.pending THEN <<Snap(seq)>> ELSE <<>>]

\* Mutant: end_batch_update notifies whether or not a notification is pending.
end_batch_update_always(o, seq) == [o |-> [o EXCEPT !.batch = FALSE, !.pending = FALSE], fired |-> <<Snap(seq)>>]

end_batch_update(o, seq) ==
    IF o.pending
    THEN [o |-> [o EXCEPT !.batch = FALSE, !.pending = FALSE], fired |-> <<Snap(seq)>>]
    ELSE [o |-> [o EXCEPT !.batch = FALSE], fired |-> <<>>]

\* Mutant: the mutator notifies in a finally clause, also when the list
\* operation raised.
Mutated_notifies_on_failure(h, l, k, r) ==
    LET n == list_notify(h[k], r.seq)
    IN  [obs |-> [h EXCEPT ![k] = n.o], lists |-> [l EXCEPT ![h[k].value.v] = r.seq], fired |-> n.fired, exc |-> r.exc]

\* A mutator of ObservableList (lines 282-313) on container k: the list
\* method runs on _value and, unless it raised, _notify follows.  r is the list
\* method's result.
Mutated(h, l, k, r) ==
    LET n == list_notify(h[k], r.seq)
    IN  IF r.exc # "none"
        THEN [obs |-> h, lists |-> l, fired |-> <<>>, exc |-> r.exc]
        ELSE [obs |-> [h EXCEPT ![k] = n.o], lists |-> [l EXCEPT ![h[k].value.v] = r.seq], fired |-> n.fired, exc |-> "none"]

Contents(k) == lists[obs[k].value.v]

\* The recorder before any notification.
NoHeard == [val |-> None, mutated |-> FALSE]

NoW == [op |-> "init", k |-> 0, arg |-> None, old |-> None, batch |-> FALSE, muts |-> 0, fired |-> <<>>, exc |-> "none",
        cbs |-> <<>>, order |-> <<>>, ret |-> "None"]

\* The record of a call op(arg) on container k: the argument, the value, the
\* batch flag and the number of batched mutations before the call, the values
\* the callback chain was invoked with, and the exception that left the call.
W(op, k, arg, fired, exc) ==
    [op |-> op, k |-> k, arg |-> arg,
     old |-> IF obs[k].kind = "list" THEN Snap(Contents(k)) ELSE obs[k].value,
     batch |-> obs[k].batch, muts |-> muts, fired |-> fired, exc |-> exc,
     cbs |-> obs[k].cbs, order |-> notify_calls(obs[k].cbs, fired), ret |-> "None"]

\* The model instances, and the state properties their class declares:
\* count = state(<an int>), history = state(<a list>).
Insts == {"A", "B"}

Props == {"count", "history"}

NoData == [p \in Props |-> [i \in {} |-> 0]]

NoPw == [op |-> "init", inst |-> "-", prop |-> "-", had |-> FALSE, kold |-> 0, nobs |-> 0, ret |-> 0, cbs |-> <<>>]

\* The count and the history of the counter model before its last increment
\* or in-place operation.
NoBefore == [count |-> None, history |-> <<>>]

PropIdle ==
    /\ cls = [i \in Insts |-> "none"]
    /\ data = NoData
    /\ pw = NoPw
    /\ declared = <<>>
    /\ decorators = {}
    /\ events = <<>>
    /\ view_context = "ctx"
    /\ other_listeners = NoReg
    /\ before = NoBefore

ObsIdle ==
    /\ obs = <<>>
    /\ lists = <<>>
    /\ got = NoCalls
    /\ w = NoW
    /\ muts = 0
    /\ opened = 0
    /\ heard = NoHeard
    /\ PropIdle

\* The change callbacks a caller registers: mock recorders.
Watchers == {"f", "g"}

\* The number of registrations made on one container.
MaxWatch == 2

\* A callback as the argument of a call.
CbArg(cb) == [t |-> "callback", v |-> 0, s |-> <<cb>>]

\* container.on_change(cb)
OnChange(k, cb) ==
    /\ Len(obs[k].cbs) < MaxWatch
    /\ obs' = [obs EXCEPT ![k] = on_change(@, cb)]
    /\ w' = [W("on_change", k, CbArg(cb), <<>>, "none") EXCEPT !.ret = on_change_returns(cb)]
    /\ got' = NoCalls
    /\ UNCHANGED <<lists, muts, opened, heard, dispVars, propVars>>

\* container.value = v, on an ObservableValue
SetValue(k, v) ==
    /\ obs[k].kind = "value"
    /\ LET r == value_set(obs, k, v)
       IN  /\ obs' = r.obs
           /\ got' = DeliverAll(NoCalls, obs[k].cbs, r.fired)
           /\ w' = W("set", k, v, r.fired, write_raises(r.exc, r.fired, obs[k].cbs))
    /\ UNCHANGED <<lists, muts, opened, heard, dispVars, propVars>>

\* The values written to a scalar container.
Scalars == {PyInt(0), PyInt(1), PyInt(2), NaN}

InitVal ==
    /\ DispIdle
    /\ \E v \in Scalars : obs = <<Container("value", v)>>
    /\ lists = <<>>
    /\ got = NoCalls
    /\ w = NoW
    /\ muts = 0
    /\ opened = 0
    /\ heard = NoHeard
    /\ PropIdle

NextVal ==
    \/ \E cb \in Watchers : OnChange(1, cb)
    \/ \E v \in Scalars : SetValue(1, v)

SpecVal == InitVal /\ [][NextVal]_vars

\* container.value = v on an ObservableValue whose callbacks may write to it.
SetValueNested(k, v) ==
    /\ obs[k].kind = "value"
    /\ \E r \in {value_set_nested([obs |-> obs, got |-> NoCalls, exc |-> "none"], k, v, RecLimit)} :
           /\ obs' = r.obs
           /\ got' = r.got
           /\ w' = W("set", k, v, value_set(obs, k, v).fired, r.exc)
    /\ UNCHANGED <<lists, muts, opened, heard, dispVars, propVars>>

NextNested ==
    \/ \E cb \in Watchers \cup Reactors : OnChange(1, cb)
    \/ \E v \in Scalars : SetValueNested(1, v)

SpecNested == InitVal /\ [][NextNested]_vars

\* The elements put into a list, and the indices used.
Elems == {"a", "b"}

Indices == {-1, 0, 1}

\* The number of mutations made within one batch.
MaxMuts == 2

Elem(i, x) == [t |-> "elem", v |-> i, s |-> <<x>>]

\* The begin_batch_update calls a caller nests.
MaxOpen == 2

\* The recorder after a call that invoked the chain cbs with each of fired;
\* mutated says that the call changed the list.
Recorded(cbs, fired, mutated) ==
    IF cbs = <<>> THEN heard
    ELSE [val |-> IF fired = <<>> THEN heard.val ELSE fired[Len(fired)], mutated |-> heard.mutated \/ mutated]

\* One of the mutators of ObservableList on container k, r being the result of
\* the list method it calls: what the call does to the container.
ListCall(k, op, arg, r) ==
    /\ obs[k].kind = "list"
    /\ Len(r.seq) <= MaxLen
    /\ obs[k].batch => muts < MaxMuts
    /\ LET m == Mutated(obs, lists, k, r)
       IN  /\ obs' = m.obs
           /\ lists' = m.lists
           /\ got' = DeliverAll(NoCalls, obs[k].cbs, m.fired)
           /\ w' = W(op, k, arg, m.fired, write_raises(m.exc, m.fired, obs[k].cbs))
           /\ muts' = IF obs[k].batch /\ m.exc = "none" THEN muts + 1 ELSE muts
    /\ UNCHANGED <<dispVars, propVars>>

ListMutate(k, op, arg, r) == ListCall(k, op, arg, r) /\ UNCHANGED <<opened, heard>>

SetItem(k, i, x) == ListMutate(k, "setitem", Elem(i, x), list_setitem(Contents(k), i, x))

DelItem(k, i) == ListMutate(k, "delitem", PyInt(i), list_delitem(Contents(k), i))

Insert(k, i, x) == ListMutate(k, "insert", Elem(i, x), list_insert(Contents(k), i, x))

AppendItem(k, x) == ListMutate(k, "append", Elem(0, x), list_append(Contents(k), x))

RemoveItem(k, x) == ListMutate(k, "remove", Elem(0, x), list_remove(Contents(k), x))

Extend(k, xs) == ListMutate(k, "extend", Snap(xs), list_extend(Contents(k), xs))

Clear(k) == ListMutate(k, "clear", None, list_clear(Contents(k)))

PopItem(k, i) == ListMutate(k, "pop", PyInt(i), list_pop(Contents(k), i))

\* container[i], len(container): plain reads.
ReadList(k) ==
    /\ obs[k].kind = "list"
    /\ w' = W("read", k, None, <<>>, "none")
    /\ got' = NoCalls
    /\ UNCHANGED <<obs, lists, muts, opened, heard, dispVars, propVars>>

BeginCall(k) ==
    /\ obs[k].kind = "list"
    /\ obs' = [obs EXCEPT ![k] = begin_batch_update(@)]
    /\ w' = W("begin", k, None, <<>>, "none")
    /\ got' = NoCalls
    /\ muts' = 0
    /\ UNCHANGED <<lists, dispVars, propVars>>

BeginBatch(k) == BeginCall(k) /\ UNCHANGED <<opened, heard>>

EndCall(k) ==
    /\ obs[k].kind = "list"
    /\ LET e == end_batch_update(obs[k], Contents(k))
       IN  /\ obs' = [obs EXCEPT ![k] = e.o]
           /\ got' = DeliverAll(NoCalls, obs[k].cbs, e.fired)
           /\ w' = W("end", k, None, e.fired, "none")
    /\ muts' = 0
    /\ UNCHANGED <<lists, dispVars, propVars>>

EndBatch(k) == EndCall(k) /\ UNCHANGED <<opened, heard>>

\* ObservableList(data): data or [] is the list the container wraps.
InitList ==
    /\ DispIdle
    /\ obs = <<Container("list", ListRef(1))>>
    /\ \E seq \in {<<>>, <<"a">>} : lists = <<seq>>
    /\ got = NoCalls
    /\ w = NoW
    /\ muts = 0
    /\ opened = 0
    /\ heard = NoHeard
    /\ PropIdle

NextList ==
    \/ \E cb \in Watchers : OnChange(1, cb)
    \/ \E i \in Indices, x \in Elems : SetItem(1, i, x)
    \/ \E i \in Indices : DelItem(1, i)
    \/ \E i \in Indices, x \in Elems : Insert(1, i, x)
    \/ \E x \in Elems : AppendItem(1, x)
    \/ \E x \in Elems : RemoveItem(1, x)
    \/ \E xs \in {<<>>, <<"b">>, <<"a", "b">>} : Extend(1, xs)
    \/ Clear(1)
    \/ \E i \in Indices : PopItem(1, i)
    \/ ReadList(1)
    \/ BeginBatch(1)
    \/ EndBatch(1)

SpecList == InitList /\ [][NextList]_vars

\* A caller that nests begin/end pairs around its mutations of one list, with
\* a recorder registered on the list.
NestedMutate(k, op, arg, r) ==
    /\ ListCall(k, op, arg, r)
    /\ heard' = Recorded(obs[k].cbs, w'.fired, w'.exc = "none")
    /\ UNCHANGED opened

NestedBegin(k) ==
    /\ opened < MaxOpen
    /\ BeginCall(k)
    /\ opened' = opened + 1
    /\ UNCHANGED heard

NestedEnd(k) ==
    /\ EndCall(k)
    /\ opened' = IF opened > 0 THEN opened - 1 ELSE 0
    /\ heard' = Recorded(obs[k].cbs, w'.fired, FALSE)

NextBatch ==
    \/ OnChange(1, "f")
    \/ \E x \in Elems : NestedMutate(1, "append", Elem(0, x), list_append(Contents(1), x))
    \/ \E i \in {-1, 0} : NestedMutate(1, "pop", PyInt(i), list_pop(Contents(1), i))
    \/ NestedMutate(1, "clear", None, list_clear(Contents(1)))
    \/ NestedBegin(1)
    \/ NestedEnd(1)

SpecBatch == InitList /\ [][NextBatch]_vars

(***************************************************************************)
(* StateProperty and Model                                                 *)
(***************************************************************************)

\* StateProperty.__init__: self.initial.  The list a sequence property was
\* declared with is list object 1.
Initial(p) == IF p = "count" THEN PyInt(0) ELSE ListRef(1)

\* The state properties in type(self).__dict__: class M declares both, its
\* subclass Sub declares none of its own.
Declared(c) == IF c = "M" THEN <<"count", "history">> ELSE <<>>

Put(f, i, k) == [j \in DOMAIN f \cup {i} |-> IF j = i THEN k ELSE f[j]]

\* Mutant: the declared list is handed on without the copy.
slice_copy_aliases(l, id) == [lists |-> l, id |-> id]

\* self.initial[:]: a new list object with the same elements.
slice_copy(l, id) == [lists |-> Append(l, l[id]), id |-> Len(l) + 1]

\* ObservableList.__init__: data or [] (an empty list is false).
ObservableList_init(l, id) == IF l[id] = <<>> THEN [lists |-> Append(l, <<>>), id |-> Len(l) + 1] ELSE [lists |-> l, id |-> id]

\* The container StateProperty.__get__ builds for a new instance.
NewContainer(st, p, i) ==
    LET k == Len(st.obs) + 1
        d == [st.data EXCEPT ![p] = Put(@, i, k)]
    IN  IF Initial(p).t = "list"
        THEN LET c == slice_copy(st.lists, Initial(p).v)
                 n == ObservableList_init(c.lists, c.id)
             IN  [obs |-> Append(st.obs, Container("list", ListRef(n.id))), lists |-> n.lists, data |-> d, k |-> k]
        ELSE [obs |-> Append(st.obs, Container("value", Initial(p))), lists |-> st.lists, data |-> d, k |-> k]

\* __get__(None, owner), the access through the class, returns self: the
\* descriptor, which is none of the containers 1..Len(obs).
NoInst == "None"

DescriptorItself == 0

\* Mutant: __get__ builds a container on every access.
sp_get_recreates(st, p, i) == NewContainer(st, p, i)

\* StateProperty.__get__(instance, owner) for an instance: st holds the
\* containers, the list objects and the per-instance maps; k is the container
\* returned.
sp_get(st, p, i) ==
    IF i = NoInst
    THEN [obs |-> st.obs, lists |-> st.lists, data |-> st.data, k |-> DescriptorItself]
    ELSE IF i \in DOMAIN st.data[p]
    THEN [obs |-> st.obs, lists |-> st.lists, data |-> st.data, k |-> st.data[p][i]]
    ELSE NewContainer(st, p, i)

\* The elements extend(value) appends: those value holds when extend runs.
Iter(st, value) == IF value.t = "seq" THEN value.s ELSE st.lists[st.obs[value.v].value.v]

\* Mutant: the assignment binds the pair to a new container that holds the
\* value.
sp_set_list_rebinds(g, value) ==
    [obs |-> Append(g.obs, Container("list", ListRef(Len(g.lists) + 1))),
     lists |-> Append(g.lists, IF value.t = "None" THEN <<>> ELSE Iter(g, value)),
     data |-> [p \in DOMAIN g.data |-> [i \in DOMAIN g.data[p] |-> IF g.data[p][i] = g.k THEN Len(g.obs) + 1 ELSE g.data[p][i]]],
     k |-> Len(g.obs) + 1, fired |-> <<>>, exc |-> "none"]

\* observable.clear(), then observable.extend(value) unless value is None.
sp_set_list(g, value) ==
    With(Mutated(g.obs, g.lists, g.k, list_clear(g.lists[g.obs[g.k].value.v])), LAMBDA c :
    With(IF value.t = "None"
         THEN [obs |-> c.obs, lists |-> c.lists, fired |-> <<>>, exc |-> "none"]
         ELSE Mutated(c.obs, c.lists, g.k, list_extend(c.lists[c.obs[g.k].value.v], Iter(c, value))), LAMBDA e :
    [obs |-> e.obs, lists |-> e.lists, data |-> g.data, k |-> g.k, fired |-> c.fired \o e.fired, exc |-> "none"]))

\* observable.value = value
sp_set_value(g, value) ==
    With(value_set(g.obs, g.k, value), LAMBDA r :
    [obs |-> r.obs, lists |-> g.lists, data |-> g.data, k |-> g.k, fired |-> r.fired, exc |-> r.exc])

\* StateProperty.__set__(instance, value)
sp_set(st, p, i, value) ==
    With(sp_get(st, p, i), LAMBDA g :
    IF g.obs[g.k].kind = "list" THEN sp_set_list(g, value) ELSE sp_set_value(g, value))

\* Mutant: the constructor touches no property, each is built on first use.
init_state_properties_lazy(st, ps, i) == st

\* Model._init_state_properties: getattr(self, name) for each state property
\* in type(self).__dict__.
RECURSIVE init_state_properties(_, _, _)
init_state_properties(st, ps, i) ==
    IF ps = <<>> THEN st
    ELSE LET g == sp_get(st, Head(ps), i)
         IN  init_state_properties([obs |-> g.obs, lists |-> g.lists, data |-> g.data], Tail(ps), i)

St == [obs |-> obs, lists |-> lists, data |-> data]

\* The record of an attribute access: whether the pair had a container before,
\* which one, the callbacks registered on it, the number of containers before,
\* and the container the descriptor returned.
Pw(op, i, p, ret) ==
    [op |-> op, inst |-> i, prop |-> p, ret |-> ret,
     had |-> p \in Props /\ i \in DOMAIN data[p],
     kold |-> IF p \in Props /\ i \in DOMAIN data[p] THEN data[p][i] ELSE 0,
     cbs |-> IF p \in Props /\ i \in DOMAIN data[p] THEN obs[data[p][i]].cbs ELSE <<>>,
     nobs |-> Len(obs)]

\* The record of a call on the container of an attribute: W on the container,
\* or on what a new container starts from.
Wp(op, i, p, arg, fired, exc) ==
    IF i \in DOMAIN data[p]
    THEN W(op, data[p][i], arg, fired, exc)
    ELSE [op |-> op, k |-> Len(obs) + 1, arg |-> arg,
          old |-> IF Initial(p).t = "list" THEN Snap(lists[Initial(p).v]) ELSE Initial(p),
          batch |-> FALSE, muts |-> muts, fired |-> fired, exc |-> exc,
          cbs |-> <<>>, order |-> <<>>, ret |-> "None"]

\* instance = Cls(): Model.__init__
Construct(i, c) ==
    /\ cls[i] = "none"
    /\ cls' = [cls EXCEPT ![i] = c]
    /\ LET st == init_state_properties(St, Declared(c), i)
       IN  /\ obs' = st.obs
           /\ lists' = st.lists
           /\ data' = st.data
    /\ pw' = Pw("construct", i, "-", 0)
    /\ w' = NoW
    /\ got' = NoCalls
    /\ UNCHANGED <<declared, decorators, events, view_context, other_listeners, before, muts, opened, heard, dispVars>>

\* instance.p, read
GetAttr(i, p) ==
    /\ cls[i] # "none"
    /\ LET g == sp_get(St, p, i)
       IN  /\ obs' = g.obs
           /\ lists' = g.lists
           /\ data' = g.data
           /\ pw' = Pw("get", i, p, g.k)
    /\ w' = NoW
    /\ got' = NoCalls
    /\ UNCHANGED <<cls, declared, decorators, events, view_context, other_listeners, before, muts, opened, heard, dispVars>>

\* Cls.p: __get__(None, owner) returns the descriptor itself.
ClassGet(p) ==
    /\ LET g == sp_get(St, p, NoInst)
       IN  /\ obs' = g.obs
           /\ lists' = g.lists
           /\ data' = g.data
           /\ pw' = Pw("classget", NoInst, p, g.k)
    /\ w' = NoW
    /\ got' = NoCalls
    /\ UNCHANGED <<cls, declared, decorators, events, view_context, other_listeners, before, muts, opened, heard, dispVars>>

\* instance.p = v
SetAttr(i, p, v) ==
    /\ cls[i] # "none"
    /\ v.t = "seq" => Initial(p).t = "list"
    /\ v.t \in {"int", "nan"} => Initial(p).t # "list"
    /\ \E r \in {sp_set(St, p, i, v)} :
           /\ obs' = r.obs
           /\ lists' = r.lists
           /\ data' = r.data
           /\ got' = DeliverAll(NoCalls, r.obs[r.k].cbs, r.fired)
           /\ w' = Wp("setattr", i, p, v, r.fired, write_raises(r.exc, r.fired, r.obs[r.k].cbs))
           /\ pw' = Pw("setattr", i, p, r.k)
    /\ UNCHANGED <<cls, declared, decorators, events, view_context, other_listeners, before, muts, opened, heard, dispVars>>

\* instance.history.append(x): the attribute is read, then the container's
\* method is called.
AppendAttr(i, x) ==
    /\ cls[i] # "none"
    /\ LET g == sp_get(St, "history", i)
           m == Mutated(g.obs, g.lists, g.k, list_append(g.lists[g.obs[g.k].value.v], x))
       IN  /\ Len(g.lists[g.obs[g.k].value.v]) < MaxLen
           /\ obs' = m.obs
           /\ lists' = m.lists
           /\ data' = g.data
           /\ got' = DeliverAll(NoCalls, g.obs[g.k].cbs, m.fired)
           /\ w' = Wp("append", i, "history", Elem(0, x), m.fired, write_raises(m.exc, m.fired, g.obs[g.k].cbs))
           /\ pw' = Pw("append", i, "history", g.k)
    /\ UNCHANGED <<cls, declared, decorators, events, view_context, other_listeners, before, muts, opened, heard, dispVars>>

\* instance.p = instance.p: the right-hand side is read, which returns the
\* container, then the container is assigned.
SetAttrSelf(i, p) ==
    /\ cls[i] # "none"
    /\ \E g \in {sp_get(St, p, i)} :
       \E r \in {sp_set([obs |-> g.obs, lists |-> g.lists, data |-> g.data], p, i, Ref(g.k))} :
           /\ obs' = r.obs
           /\ lists' = r.lists
           /\ data' = r.data
           /\ got' = DeliverAll(NoCalls, r.obs[r.k].cbs, r.fired)
           /\ w' = Wp("setattr_self", i, p, Ref(g.k), r.fired, r.exc)
           /\ pw' = Pw("setattr_self", i, p, r.k)
    /\ UNCHANGED <<cls, declared, decorators, events, view_context, other_listeners, before, muts, opened, heard, dispVars>>

\* instance.history += xs: the attribute is read, MutableSequence.__iadd__
\* extends the container and returns it, and the container is assigned.
IAddAttr(i, xs) ==
    /\ cls[i] # "none"
    /\ \E g \in {sp_get(St, "history", i)} :
       \E m \in {Mutated(g.obs, g.lists, g.k, list_extend(g.lists[g.obs[g.k].value.v], xs))} :
       \E r \in {sp_set([obs |-> m.obs, lists |-> m.lists, data |-> g.data], "history", i, Ref(g.k))} :
           /\ Len(g.lists[g.obs[g.k].value.v]) + Len(xs) <= MaxLen
           /\ obs' = r.obs
           /\ lists' = r.lists
           /\ data' = r.data
           /\ got' = DeliverAll(NoCalls, r.obs[r.k].cbs, m.fired \o r.fired)
           /\ w' = Wp("iadd", i, "history", Snap(xs), m.fired \o r.fired, r.exc)
           /\ pw' = Pw("iadd", i, "history", r.k)
    /\ UNCHANGED <<cls, declared, decorators, events, view_context, other_listeners, before, muts, opened, heard, dispVars>>

\* The callbacks registered on the containers of the model instances are
\* capped at MaxReg in all.
MaxReg == 1

RECURSIVE Registered(_)
Registered(h) == IF h = <<>> THEN 0 ELSE Len(Head(h).cbs) + Registered(Tail(h))

\* StateProperty.on_change(instance, cb), cb a callable
OnChangeAttr(i, p, cb) ==
    /\ cls[i] # "none"
    /\ LET g == sp_get(St, p, i)
       IN  /\ Registered(obs) < MaxReg
           /\ obs' = [g.obs EXCEPT ![g.k] = on_change(@, cb)]
           /\ lists' = g.lists
           /\ data' = g.data
           /\ pw' = Pw("on_change", i, p, g.k)
    /\ w' = NoW
    /\ got' = NoCalls
    /\ UNCHANGED <<cls, declared, decorators, events, view_context, other_listeners, before, muts, opened, heard, dispVars>>

\* The lists a sequence property is declared with, and the values assigned.
DeclaredLists == {<<>>, <<"a">>}

Assigned == {PyInt(0), PyInt(1), None, Snap(<<>>), Snap(<<"b">>)}

\* A is an instance of class M or of its subclass and is written; B is an
\* instance of M and is only read and subscribed to.  A's callback is f, B's
\* is g.
WatcherOf(i) == IF i = "A" THEN "f" ELSE "g"

InitProp ==
    /\ DispIdle
    /\ obs = <<>>
    /\ \E seq \in DeclaredLists : lists = <<seq>> /\ declared = seq
    /\ decorators = {}
    /\ events = <<>>
    /\ view_context = "ctx"
    /\ other_listeners = NoReg
    /\ got = NoCalls
    /\ w = NoW
    /\ muts = 0
    /\ opened = 0
    /\ heard = NoHeard
    /\ cls = [i \in Insts |-> "none"]
    /\ data = NoData
    /\ pw = NoPw
    /\ before = NoBefore

NextProp ==
    \/ \E c \in {"M", "Sub"} : Construct("A", c)
    \/ Construct("B", "M")
    \/ \E i \in Insts, p \in Props : GetAttr(i, p)
    \/ \E p \in Props : ClassGet(p)
    \/ \E p \in Props, v \in Assigned : SetAttr("A", p, v)
    \/ \E x \in {"b"} : AppendAttr("A", x)
    \/ SetAttrSelf("A", "history")
    \/ \E xs \in {<<"b">>} : IAddAttr("A", xs)
    \/ \E i \in Insts, p \in Props : OnChangeAttr(i, p, WatcherOf(i))

SpecProp == InitProp /\ [][NextProp]_vars

\* i.count = j.count: the right-hand side is read, which returns the container
\* of j, and that container is assigned to the attribute of i.
AssignFrom(i, j) ==
    /\ cls[i] # "none" /\ cls[j] # "none"
    /\ i # j
    /\ \E g \in {sp_get(St, "count", j)} :
       \E r \in {sp_set([obs |-> g.obs, lists |-> g.lists, data |-> g.data], "count", i, Ref(g.k))} :
           /\ obs' = r.obs
           /\ lists' = r.lists
           /\ data' = r.data
           /\ got' = DeliverAll(NoCalls, r.obs[r.k].cbs, r.fired)
           /\ w' = Wp("setattr_from", i, "count", Ref(g.k), r.fired, write_raises(r.exc, r.fired, r.obs[r.k].cbs))
           /\ pw' = Pw("setattr_from", i, "count", r.k)
    /\ UNCHANGED <<cls, declared, decorators, events, view_context, other_listeners, before, muts, opened, heard, dispVars>>

\* Two models whose counts are written, read and assigned from one another.
NextAssign ==
    \/ \E i \in Insts : Construct(i, "M")
    \/ \E i \in Insts, v \in {PyInt(0), PyInt(1), PyInt(2)} : SetAttr(i, "count", v)
    \/ \E i \in Insts, j \in Insts : AssignFrom(i, j)
    \/ \E i \in Insts : OnChangeAttr(i, "count", WatcherOf(i))

SpecAssign == InitProp /\ [][NextAssign]_vars

(***************************************************************************)
(* Model.on_change                                                         *)
(***************************************************************************)

\* type(self).__dict__ of the instance's class: the counter model's holds its
\* two state properties and its method increment; its subclass's holds none of
\* them.
ClassDict(c) ==
    IF c = "M"
    THEN [n \in {"count", "history", "increment"} |-> IF n = "increment" THEN "function" ELSE "StateProperty"]
    ELSE [n \in {} |-> "function"]

\* The names on_change is called with: the state properties, a method, and a
\* name no class defines.
AttrNames == Props \cup {"increment", "missing"}

\* The values passed as a callback: the recorders, a value that is not
\* callable, and None, which is the default of the parameter.
Absent == "None"

Callbacks == Watchers \cup {NotCallable, Absent}

\* callable(callback)
is_callable(cb) == cb \in Watchers

\* Mutant: every attribute the class defines passes for a state property.
find_descriptor_any(c, name) == IF name \in DOMAIN ClassDict(c) THEN "none" ELSE "SwallowStateError"

\* descriptor = type(self).__dict__.get(prop_name), and the test that follows:
\* the exception raised.
find_descriptor(c, name) ==
    IF name \in DOMAIN ClassDict(c) /\ ClassDict(c)[name] = "StateProperty" THEN "none" ELSE "SwallowStateError"

\* The outcome of a call that registers nothing.
Unregistered(st, exc, ret) ==
    [obs |-> st.obs, lists |-> st.lists, data |-> st.data, k |-> 0, exc |-> exc, ret |-> ret, decorator |-> FALSE]

\* StateProperty.on_change(instance, callback)
sp_on_change(st, p, i, cb) ==
    IF cb = Absent THEN Unregistered(st, "SwallowStateError", "None")
    ELSE With(sp_get(st, p, i), LAMBDA g :
         [obs |-> [g.obs EXCEPT ![g.k] = on_change(@, cb)], lists |-> g.lists, data |-> g.data, k |-> g.k,
          exc |-> "none", ret |-> on_change_returns(cb), decorator |-> FALSE])

\* Mutant: the decorator registers what it is given without a test.
decorator_call_untested(st, d, func) == [sp_on_change(st, d.prop, d.inst, func) EXCEPT !.ret = func]

\* decorator(func), the closure on_change(prop_name) returned for instance
\* d.inst and property d.prop
decorator_call(st, d, func) ==
    IF ~is_callable(func) THEN Unregistered(st, "SwallowStateError", "None")
    ELSE With(sp_on_change(st, d.prop, d.inst, func), LAMBDA r :
         IF r.exc # "none" THEN r ELSE [r EXCEPT !.ret = func])

\* Model.on_change(prop_name, callback) on instance i of class c.  An
\* attribute that is no StateProperty has no on_change.
model_on_change(st, c, i, name, cb) ==
    IF find_descriptor(c, name) # "none" THEN Unregistered(st, find_descriptor(c, name), "None")
    ELSE IF name \notin Props THEN Unregistered(st, "AttributeError", "None")
    ELSE IF cb # Absent
    THEN IF ~is_callable(cb) THEN Unregistered(st, "SwallowStateError", "None")
         ELSE With(sp_on_change(st, name, i, cb), LAMBDA r :
              IF r.exc # "none" THEN r ELSE [r EXCEPT !.ret = cb])
    ELSE [Unregistered(st, "none", "decorator") EXCEPT !.decorator = TRUE]

\* The decorators kept by callers at one time.
MaxDecorators == 1

\* The record of a call of Model.on_change or of a decorator: the container of
\* the pair when it has one, its chain before the call, the callback given,
\* the value returned and the exception.
Wm(op, i, name, cb, r) ==
    [NoW EXCEPT !.op = op, !.arg = CbArg(cb), !.exc = r.exc, !.ret = r.ret,
                !.k = IF name \in Props /\ i \in DOMAIN data[name] THEN data[name][i] ELSE 0,
                !.cbs = IF name \in Props /\ i \in DOMAIN data[name] THEN obs[data[name][i]].cbs ELSE <<>>]

\* instance.on_change(name, cb), and instance.on_change(name) when cb is None
ModelOnChange(i, name, cb) ==
    /\ cls[i] # "none"
    /\ \E r \in {model_on_change(St, cls[i], i, name, cb)} :
          /\ Registered(r.obs) <= MaxWatch
          /\ r.decorator => Cardinality(decorators \cup {[inst |-> i, prop |-> name]}) <= MaxDecorators
          /\ obs' = r.obs
          /\ lists' = r.lists
          /\ data' = r.data
          /\ decorators' = IF r.decorator THEN decorators \cup {[inst |-> i, prop |-> name]} ELSE decorators
          /\ w' = Wm("model.on_change", i, name, cb, r)
          /\ pw' = Pw("model.on_change", i, name, r.k)
    /\ got' = NoCalls
    /\ UNCHANGED <<cls, declared, events, view_context, other_listeners, before, muts, opened, heard, dispVars>>

\* type(instance).p.on_change(instance, cb): the descriptor, reached through
\* the class, is asked to register cb.
PropertyOnChange(i, p, cb) ==
    /\ cls[i] # "none"
    /\ \E r \in {sp_on_change(St, p, i, cb)} :
          /\ Registered(r.obs) <= MaxWatch
          /\ obs' = r.obs
          /\ lists' = r.lists
          /\ data' = r.data
          /\ w' = Wm("sp.on_change", i, p, cb, r)
          /\ pw' = Pw("sp.on_change", i, p, r.k)
    /\ got' = NoCalls
    /\ UNCHANGED <<cls, declared, decorators, events, view_context, other_listeners, before, muts, opened, heard, dispVars>>

\* d(func), d a decorator a caller holds; the caller drops it or keeps it.
DecoratorCall(d, func, keep) ==
    /\ d \in decorators
    /\ \E r \in {decorator_call(St, d, func)} :
          /\ Registered(r.obs) <= MaxWatch
          /\ obs' = r.obs
          /\ lists' = r.lists
          /\ data' = r.data
          /\ w' = Wm("decorator", d.inst, d.prop, func, r)
          /\ pw' = Pw("decorator", d.inst, d.prop, r.k)
    /\ decorators' = IF keep THEN decorators ELSE decorators \ {d}
    /\ got' = NoCalls
    /\ UNCHANGED <<cls, declared, events, view_context, other_listeners, before, muts, opened, heard, dispVars>>

InitWatch ==
    /\ DispIdle
    /\ obs = <<>>
    /\ lists = <<<<>>>>
    /\ declared = <<>>
    /\ decorators = {}
    /\ events = <<>>
    /\ view_context = "ctx"
    /\ other_listeners = NoReg
    /\ got = NoCalls
    /\ w = NoW
    /\ muts = 0
    /\ opened = 0
    /\ heard = NoHeard
    /\ cls = [i \in Insts |-> "none"]
    /\ data = NoData
    /\ pw = NoPw
    /\ before = NoBefore

NextWatch ==
    \/ \E c \in {"M", "Sub"} : Construct("A", c)
    \/ \E name \in AttrNames, cb \in Callbacks : ModelOnChange("A", name, cb)
    \/ \E d \in decorators, func \in Callbacks, keep \in BOOLEAN : DecoratorCall(d, func, keep)
    \/ \E p \in Props, cb \in Callbacks : PropertyOnChange("A", p, cb)
    \/ SetAttr("A", "count", PyInt(1))

SpecWatch == InitWatch /\ [][NextWatch]_vars

(***************************************************************************)
(* Event                                                                   *)
(***************************************************************************)

\* The Event objects the model keeps.
MaxEvents == 2

\* The values passed as a name: those add_listener is called with, and None.
EventNames == ArgNames \cup {NoneName}

\* The payloads; a call that passes none is Event(name).
Omitted == "<omitted>"

EventData == {"None", "p"}

\* bool(v): the empty string and None are false, any other value used is true.
truthy(v) == v \notin {"", NoneName}

\* The __init__ the dataclass decorator generates: data = None when not given.
field_default(d) == IF d = Omitted THEN "None" ELSE d

\* Mutant: __post_init__ accepts every name.
post_init_accepts(ev) == "none"

\* Event.__post_init__: the exception raised
post_init(ev) == IF ~truthy(ev.name) \/ ~isinstance_str(ev.name) THEN "SwallowArgumentError" ELSE "none"

\* Mutant: the payload given is dropped.
Event_new_drops_data(n, d) == [exc |-> post_init(Event(n, "None")), ev |-> Event(n, "None")]

\* Event(n, d): __init__ assigns the fields and calls __post_init__; when that
\* raises, the caller gets no object.
Event_new(n, d) == [exc |-> post_init(Event(n, field_default(d))), ev |-> Event(n, field_default(d))]

\* event.field = v: the dataclass is not frozen, so object.__setattr__ stores v
\* and nothing validates it.
Event_setattr(ev, field, v) == [exc |-> "none", ev |-> [ev EXCEPT ![field] = v]]

EventIdle ==
    /\ listeners = NoReg
    /\ stack = <<>>
    /\ last = [op |-> "init", name |-> "-", data |-> "-", ref |-> 0, field |-> "-", before |-> <<>>, status |-> "returned"]
    /\ calls = NoCalls
    /\ execs = NoCalls
    /\ lambdas = 0
    /\ maps = [n \in Names, cmd \in Cmds |-> 0]

\* e = Event(n, d), or Event(n) when d is Omitted
NewEvent(n, d) ==
    /\ Len(events) < MaxEvents
    /\ \E r \in {Event_new(n, d)} :
          /\ events' = IF r.exc = "none" THEN Append(events, r.ev) ELSE events
          /\ last' = [op |-> "Event", name |-> n, data |-> d, ref |-> IF r.exc = "none" THEN Len(events) + 1 ELSE 0,
                      field |-> "-", before |-> events, status |-> IF r.exc = "none" THEN "returned" ELSE r.exc]
    /\ UNCHANGED <<listeners, stack, calls, execs, lambdas, maps, obs, lists, got, w, muts, opened, heard, cls, data, pw, declared, decorators, before, view_context, other_listeners>>

\* e.name = v or e.data = v, e an event constructed earlier
SetEventAttr(e, field, v) ==
    /\ e \in DOMAIN events
    /\ \E r \in {Event_setattr(events[e], field, v)} :
          /\ events' = [events EXCEPT ![e] = r.ev]
          /\ last' = [op |-> "setattr", name |-> IF field = "name" THEN v ELSE "-", data |-> IF field = "data" THEN v ELSE "-",
                      ref |-> e, field |-> field, before |-> events, status |-> IF r.exc = "none" THEN "returned" ELSE r.exc]
    /\ UNCHANGED <<listeners, stack, calls, execs, lambdas, maps, obs, lists, got, w, muts, opened, heard, cls, data, pw, declared, decorators, before, view_context, other_listeners>>

InitEvent == EventIdle /\ ObsIdle

NextEvent ==
    \/ \E n \in EventNames, d \in EventData \cup {Omitted} : NewEvent(n, d)
    \/ \E e \in 1..MaxEvents, v \in EventNames : SetEventAttr(e, "name", v)
    \/ \E e \in 1..MaxEvents, v \in EventData : SetEventAttr(e, "data", v)

SpecEvent == InitEvent /\ [][NextEvent]_vars

\* dispatcher.add_listener(n, c), n being any value a caller may take for the
\* name of an event.
ListenFor(n, c) ==
    /\ \E r \in {add_listener_call(listeners, n, c)} :
          /\ listeners' = r.reg
          /\ last' = [op |-> "add", name |-> n, data |-> "-", ref |-> 0, field |-> "-", before |-> events,
                      status |-> IF r.exc = "none" THEN "returned" ELSE r.exc]
    /\ UNCHANGED <<stack, calls, execs, lambdas, maps, obsVars>>

\* dispatcher.remove_listener(n, c)
StopListening(n, c) ==
    /\ \E r \in {remove_listener(listeners, n, c)} :
          /\ listeners' = r.reg
          /\ last' = [op |-> "remove", name |-> n, data |-> "-", ref |-> 0, field |-> "-", before |-> events,
                      status |-> IF r.exc = "none" THEN "returned" ELSE r.exc]
    /\ UNCHANGED <<stack, calls, execs, lambdas, maps, obsVars>>

\* Events are constructed and their names are listened for.
NextNames ==
    \/ \E n \in EventNames, d \in {"p", Omitted} : NewEvent(n, d)
    \/ \E n \in EventNames : ListenFor(n, OkCb)
    \/ \E n \in EventNames : StopListening(n, OkCb)

SpecNames == InitEvent /\ [][NextNames]_vars

(***************************************************************************)
(* The specifications of the dispatcher and of Context                     *)
(***************************************************************************)

\* The payloads of the events dispatched on the bare dispatcher.
DispData == {"p"}

InitDisp == DispIdle /\ ObsIdle

NextDisp ==
    \/ \E n \in ArgNames, c \in ArgCallbacks : AddListener(n, c)
    \/ \E n \in ArgNames, c \in ArgCallbacks : RemoveListener(n, c)
    \/ \E n \in Names \cup {NotEvent}, d \in DispData : Dispatch(n, d)
    \/ Step

SpecDisp == InitDisp /\ [][NextDisp]_vars

(***************************************************************************)
(* Context                                                                 *)
(***************************************************************************)

\* The number of map_command calls the model makes.
MaxMaps == 3

Payloads == {"p", "q"}

\* Mutant: a new mapping takes the place of the name's earlier ones.
map_command_replaces(reg, n, lam) == [defaultdict_get(reg, n) EXCEPT ![n] = {lam}]

\* Context.map_command, on a Command: the dispatcher's new registry.
map_command(reg, n, lam) == add_listener(reg, n, lam)

\* Mutant: map_command does not validate the command.
map_command_validates_nothing(cmd) == "none"

\* validate_instance_type('command', command, Command)
map_command_validates(cmd) == validate_instance_type(isinstance_Command(cmd))

\* Context.map_command on any arguments: the command is validated, then
\* add_listener validates the name and registers the wrapper, which is callable
\* and hashable.
map_command_call(reg, n, cmd, lam) ==
    IF map_command_validates(cmd) # "none" THEN [reg |-> reg, exc |-> map_command_validates(cmd)]
    ELSE IF validate_listener_args(n, lam) # "none" THEN [reg |-> reg, exc |-> validate_listener_args(n, lam)]
    ELSE [reg |-> map_command(reg, n, lam), exc |-> "none"]

\* context.map_command(n, cmd)
MapCommand(n, cmd) ==
    /\ stack = <<>>
    /\ lambdas < MaxMaps
    /\ \E r \in {map_command_call(listeners, n, cmd, Lambda(cmd, lambdas + 1))} :
          /\ lambdas' = IF r.exc = "none" THEN lambdas + 1 ELSE lambdas
          /\ maps' = IF r.exc = "none" THEN [maps EXCEPT ![n, cmd] = @ + 1] ELSE maps
          /\ listeners' = r.reg
          /\ last' = [op |-> "map", name |-> n, cb |-> Lambda(cmd, lambdas + 1), data |-> "-", before |-> listeners,
                      status |-> IF r.exc = "none" THEN "returned" ELSE r.exc]
    /\ calls' = NoCalls
    /\ UNCHANGED <<stack, execs, obsVars>>

\* The object whose dispatch method the caller called.
Via(x) == [kind |-> x, cmd |-> "-", id |-> 0]

\* validate_instance_type('event', event, Event) of Context.dispatch
context_dispatch_validates(ev) == validate_instance_type(isinstance_Event(ev))

\* Context.dispatch: the event is validated and forwarded to the dispatcher.
ContextDispatch(n, d, via) ==
    IF context_dispatch_validates(Event(n, d)) # "none"
    THEN /\ stack = <<>>
         /\ last' = [op |-> "dispatch", name |-> n, cb |-> Via(via), data |-> d, before |-> listeners,
                     status |-> context_dispatch_validates(Event(n, d))]
         /\ calls' = NoCalls
         /\ execs' = NoCalls
         /\ UNCHANGED <<listeners, stack, lambdas, maps, obsVars>>
    ELSE DispatchFrom(n, d, Via(via))

\* context.dispatch(Event(n, d))
CtxDispatch(n, d) == ContextDispatch(n, d, "context")

\* The contexts: the one the view was constructed with, and another one,
\* built on a dispatcher of its own on which nothing is registered.
Contexts == {"ctx", "other"}

\* Context.dispatch of the other context: the event is validated, its
\* dispatcher has no listener for any name and returns.
OtherContextDispatch(n, d, via) ==
    /\ stack = <<>>
    /\ last' = [op |-> "dispatch", name |-> n, cb |-> Via(via), data |-> d, before |-> listeners,
                status |-> IF context_dispatch_validates(Event(n, d)) # "none"
                           THEN context_dispatch_validates(Event(n, d)) ELSE "returned"]
    /\ calls' = NoCalls
    /\ execs' = NoCalls
    /\ UNCHANGED <<listeners, stack, lambdas, maps, obsVars>>

\* view.dispatch(Event(n, d)): View.dispatch calls self.context.dispatch(event),
\* self.context being the property that returns self._context.
ViewDispatch(n, d) ==
    IF view_context = "ctx" THEN ContextDispatch(n, d, "view") ELSE OtherContextDispatch(n, d, "view")

\* Mutant: the property has a setter.
property_set_assigns(cur, new) == [exc |-> "none", context |-> new]

\* view.context = new: the property defines no setter, the assignment raises
\* AttributeError and _context is what it was.
property_set(cur, new) == [exc |-> "AttributeError", context |-> cur]

\* view.context = c
SetViewContext(c) ==
    /\ stack = <<>>
    /\ \E r \in {property_set(view_context, c)} :
          /\ view_context' = r.context
          /\ last' = [op |-> "view.context", name |-> c, cb |-> Via("view"), data |-> "-", before |-> listeners,
                      status |-> IF r.exc = "none" THEN "returned" ELSE r.exc]
    /\ calls' = NoCalls
    /\ UNCHANGED <<listeners, stack, execs, lambdas, maps, obs, lists, got, w, muts, opened, heard,
                   cls, data, pw, declared, decorators, before, events, other_listeners>>

InitCtx == DispIdle /\ ObsIdle

NextCtx ==
    \/ \E n \in Names, cmd \in Cmds : MapCommand(n, cmd)
    \/ \E n \in Names, d \in Payloads : CtxDispatch(n, d)
    \/ \E n \in Names, d \in Payloads : ViewDispatch(n, d)
    \/ \E c \in Contexts : SetViewContext(c)
    \/ Step

SpecCtx == InitCtx /\ [][NextCtx]_vars

\* Several contexts: "ctx" and "peer" are constructed with the same
\* dispatcher, "other" with a dispatcher of its own.
AllContexts == {"ctx", "peer", "other"}

\* Mutant: Context.__init__ builds a dispatcher of its own for every context
\* but the first.
event_dispatcher_own(c) == IF c = "ctx" THEN "main" ELSE "apart"

\* Context.event_dispatcher: the reference __init__ stored.
event_dispatcher(c) == IF c \in {"ctx", "peer"} THEN "main" ELSE "apart"

\* The _listeners of a dispatcher.
Registry(disp) == IF disp = "main" THEN listeners ELSE other_listeners

\* c.map_command(n, cmd), c one of the contexts
ShareMap(c, n, cmd) ==
    /\ lambdas < MaxMaps
    /\ \E r \in {map_command_call(Registry(event_dispatcher(c)), n, cmd, Lambda(cmd, lambdas + 1))} :
          /\ lambdas' = IF r.exc = "none" THEN lambdas + 1 ELSE lambdas
          /\ maps' = IF r.exc = "none" THEN [maps EXCEPT ![c, n, cmd] = @ + 1] ELSE maps
          /\ listeners' = IF event_dispatcher(c) = "main" THEN r.reg ELSE listeners
          /\ other_listeners' = IF event_dispatcher(c) = "main" THEN other_listeners ELSE r.reg
          /\ last' = [op |-> "map", name |-> n, cb |-> Via(c), data |-> "-", before |-> Registry(event_dispatcher(c)),
                      status |-> IF r.exc = "none" THEN "returned" ELSE r.exc]
    /\ calls' = NoCalls
    /\ UNCHANGED <<stack, execs, obs, lists, got, w, muts, opened, heard, cls, data, pw, declared, decorators, before, events, view_context>>

\* The payloads execute of cmd was called with when each listener in ls was
\* invoked with ev: one call for every wrapper of cmd.
Executions(ls, ev) ==
    [cmd \in {l.cmd : l \in ls} |-> [j \in 1..Cardinality({l \in ls : l.cmd = cmd}) |-> lambda_payload(dispatch_passes(ev))]]

\* The whole of dispatch(Event(n, d)) on the dispatcher disp, every listener
\* being a wrapper map_command registered: the wrappers change no registry,
\* and what their commands raise is caught.
DispatchOn(disp, n, d, caller) ==
    /\ \E b \in {dispatch_begin(Registry(disp), n)} :
          /\ listeners' = IF disp = "main" THEN b.reg ELSE listeners
          /\ other_listeners' = IF disp = "main" THEN other_listeners ELSE b.reg
          /\ calls' = IF b.iterate THEN [l \in b.reg[n] |-> <<dispatch_passes(Event(n, d))>>] ELSE NoCalls
          /\ execs' = IF b.iterate THEN Executions(b.reg[n], Event(n, d)) ELSE NoCalls
    /\ last' = [op |-> "dispatch", name |-> n, cb |-> caller, data |-> d, before |-> Registry(disp), status |-> "returned"]
    /\ UNCHANGED <<stack, lambdas, maps, obs, lists, got, w, muts, opened, heard, cls, data, pw, declared, decorators, before, events, view_context>>

\* c.dispatch(Event(n, d)): validated, then forwarded to the context's
\* dispatcher.
ShareDispatch(c, n, d) ==
    /\ context_dispatch_validates(Event(n, d)) = "none"
    /\ DispatchOn(event_dispatcher(c), n, d, Via(c))

\* dispatcher.dispatch(Event(n, d)) on the dispatcher "ctx" and "peer" share.
DirectDispatch(n, d) ==
    /\ dispatch_validates(Event(n, d)) = "none"
    /\ DispatchOn("main", n, d, Via("dispatcher"))

InitShare ==
    /\ listeners = NoReg
    /\ stack = <<>>
    /\ last = [op |-> "init", name |-> "-", cb |-> NoCb, data |-> "-", before |-> NoReg, status |-> "returned"]
    /\ calls = NoCalls
    /\ execs = NoCalls
    /\ lambdas = 0
    /\ maps = [c \in AllContexts, n \in Names, cmd \in Cmds |-> 0]
    /\ ObsIdle

NextShare ==
    \/ \E c \in AllContexts, n \in Names, cmd \in Cmds : ShareMap(c, n, cmd)
    \/ \E c \in AllContexts, n \in Names, d \in DispData : ShareDispatch(c, n, d)
    \/ \E n \in Names, d \in DispData : DirectDispatch(n, d)

SpecShare == InitShare /\ [][NextShare]_vars

\* The calls of the dispatcher, a context and a view with well-formed and with
\* ill-formed arguments.
ArgListeners == {Cb("ok"), Cb("bad"), Cb("notcallable"), Cb("unhashable")}

ArgCmds == {"c1", NotCommand}

ArgEvents == Names \cup {NotEvent}

InitArgs == DispIdle /\ ObsIdle

NextArgs ==
    \/ \E n \in ArgNames, c \in ArgListeners : AddListener(n, c)
    \/ \E n \in ArgNames, c \in ArgListeners : RemoveListener(n, c)
    \/ \E n \in ArgNames, cmd \in ArgCmds : MapCommand(n, cmd)
    \/ \E n \in ArgEvents, d \in DispData : Dispatch(n, d)
    \/ \E n \in ArgEvents, d \in DispData : CtxDispatch(n, d)
    \/ \E n \in ArgEvents, d \in DispData : ViewDispatch(n, d)
    \/ \E c \in Contexts : SetViewContext(c)
    \/ Step

SpecArgs == InitArgs /\ [][NextArgs]_vars

(***************************************************************************)
(* The counter example: CounterModel, IncrementCommand, CounterContext     *)
(***************************************************************************)

\* Python ints are unbounded: the count is kept within -MaxCount..MaxCount.
MaxCount == 5

Digit == <<"0", "1", "2", "3", "4", "5", "6", "7", "8", "9">>

\* str(n) of an int
RECURSIVE IntStr(_)
IntStr(n) ==
    IF n < 0 THEN "-" \o IntStr(-n)
    ELSE IF n < 10 THEN Digit[n + 1]
    ELSE IntStr(n \div 10) \o Digit[(n % 10) + 1]

\* f"Incremented by {amount}"
Log(amount) == "Incremented by " \o (IF amount.t = "nan" THEN "nan" ELSE IntStr(amount.v))

IntOp(op, x, y) == IF op = "+" THEN x + y ELSE IF op = "-" THEN x - y ELSE x * y

\* a OP b as Python evaluates it, a being the _value of a container: an
\* ObservableValue operand applies its own operator to its _value (lines
\* 118-131), which does not end when a container holds itself; nan absorbs.
RECURSIVE PyArith(_, _, _, _, _)
PyArith(h, op, a, b, fuel) ==
    IF fuel = 0 THEN [val |-> None, exc |-> "RecursionError"]
    ELSE IF a.t = "obs" THEN PyArith(h, op, h[a.v].value, b, fuel - 1)
    ELSE IF a.t = "None" \/ b.t = "None" THEN [val |-> None, exc |-> "TypeError"]
    ELSE IF a.t = "nan" \/ b.t = "nan" THEN [val |-> NaN, exc |-> "none"]
    ELSE [val |-> PyInt(IntOp(op, a.v, b.v)), exc |-> "none"]

\* ObservableValue.__iadd__ / __isub__ / __imul__ on container k: the value
\* setter is handed self._value OP other; the method returns self.
inplace(h, k, op, other) ==
    With(PyArith(h, op, h[k].value, IF other.t = "obs" THEN h[other.v].value ELSE other, RecLimit), LAMBDA r :
    IF r.exc # "none" THEN [obs |-> h, fired |-> <<>>, exc |-> r.exc, ret |-> Ref(k)]
    ELSE With(value_set(h, k, r.val), LAMBDA v :
         [obs |-> v.obs, fired |-> v.fired, exc |-> v.exc, ret |-> Ref(k)]))

\* instance.p OP= other: the descriptor's __get__, the in-place method of the
\* container it returns, then the descriptor's __set__ with what the method
\* returned.
attr_inplace(st, p, i, op, other) ==
    With(sp_get(st, p, i), LAMBDA g :
    With(inplace(g.obs, g.k, op, other), LAMBDA r :
    IF r.exc # "none"
    THEN [obs |-> g.obs, lists |-> g.lists, data |-> g.data, k |-> g.k, fired |-> <<>>, exc |-> r.exc]
    ELSE IF write_raises(r.exc, r.fired, g.obs[g.k].cbs) # "none"
    THEN \* a callback raised within the in-place method: __set__ is not reached
         [obs |-> r.obs, lists |-> g.lists, data |-> g.data, k |-> g.k, fired |-> r.fired,
          exc |-> write_raises(r.exc, r.fired, g.obs[g.k].cbs)]
    ELSE With(sp_set([obs |-> r.obs, lists |-> g.lists, data |-> g.data], p, i, r.ret), LAMBDA x :
         [obs |-> x.obs, lists |-> x.lists, data |-> x.data, k |-> g.k, fired |-> r.fired \o x.fired,
          exc |-> write_raises(x.exc, x.fired, g.obs[g.k].cbs)])))

\* CounterModel.increment(amount)
increment(st, i, amount) ==
    With(attr_inplace(st, "count", i, "+", amount), LAMBDA c :
    IF c.exc # "none"
    THEN \* the statement raised: the append that follows it is not reached
         [obs |-> c.obs, lists |-> c.lists, data |-> c.data, cfired |-> c.fired, hfired |-> <<>>, exc |-> c.exc]
    ELSE With(sp_get([obs |-> c.obs, lists |-> c.lists, data |-> c.data], "history", i), LAMBDA g :
         With(Mutated(g.obs, g.lists, g.k, list_append(g.lists[g.obs[g.k].value.v], Log(amount))), LAMBDA m :
         [obs |-> m.obs, lists |-> m.lists, data |-> g.data, cfired |-> c.fired, hfired |-> m.fired,
          exc |-> write_raises(m.exc, m.fired, g.obs[g.k].cbs)])))

\* dict.get(key, default)
dict_get(d, key, default) == IF key \in DOMAIN d THEN d[key] ELSE default

\* Mutant: execute puts its work off and returns.
execute_deferred(st, i, d) ==
    [obs |-> st.obs, lists |-> st.lists, data |-> st.data, cfired |-> <<>>, hfired |-> <<>>, exc |-> "none"]

\* IncrementCommand.execute(data)
execute(st, i, d) == increment(st, i, dict_get(d, "amount", PyInt(1)))

Amounts == {PyInt(0), PyInt(5)}

\* The payloads of the events: {"amount": n}, and {}.
Dicts == {[key \in {"amount"} |-> a] : a \in Amounts} \cup {[key \in {} |-> None]}

InRangeCount(v) == v.t = "int" => (v.v >= -MaxCount /\ v.v <= MaxCount)

Snapshot(st, i) ==
    [count |-> st.obs[st.data["count"][i]].value,
     history |-> st.lists[st.obs[st.data["history"][i]].value.v]]

\* dispatcher.dispatch(Event(n, d)): the whole call, INCREMENT having the one
\* listener map_command registered for the IncrementCommand of model A.
CounterDispatch(n, d) ==
    /\ stack = <<>>
    /\ \E r \in {execute(St, "A", lambda_payload(dispatch_passes(Event(n, d))))} :
       LET b == dispatch_begin(listeners, n)
           kc == data["count"]["A"]
           kh == data["history"]["A"]
       IN  /\ listeners' = b.reg
           /\ last' = [op |-> "dispatch", name |-> n, cb |-> NoCb, data |-> d, before |-> listeners,
                       status |-> IF ~b.iterate \/ r.exc = "none" \/ dispatch_catches(r.exc) THEN "returned" ELSE "raised"]
           /\ IF b.iterate
              THEN /\ Len(r.lists[r.obs[kh].value.v]) <= MaxLen
                   /\ InRangeCount(r.obs[kc].value)
                   /\ obs' = r.obs
                   /\ lists' = r.lists
                   /\ data' = r.data
                   /\ got' = DeliverAll(DeliverAll(NoCalls, obs[kc].cbs, r.cfired), obs[kh].cbs, r.hfired)
                   /\ w' = [op |-> "increment", k |-> kc, arg |-> dict_get(d, "amount", PyInt(1)), old |-> obs[kc].value,
                            batch |-> FALSE, muts |-> muts, fired |-> r.cfired, exc |-> r.exc,
                            cbs |-> obs[kc].cbs, order |-> notify_calls(obs[kc].cbs, r.cfired), ret |-> "None"]
                   /\ before' = Snapshot(St, "A")
              ELSE /\ got' = NoCalls
                   /\ w' = NoW
                   /\ UNCHANGED <<obs, lists, data, before>>
    /\ UNCHANGED <<stack, calls, execs, lambdas, maps, cls, pw, declared, decorators, events, view_context, other_listeners, muts, opened, heard>>

\* model.count OP= other, outside any command
InPlace(op, other) ==
    /\ stack = <<>>
    /\ \E r \in {attr_inplace(St, "count", "A", op, other)} :
           /\ InRangeCount(r.obs[r.k].value)
           /\ obs' = r.obs
           /\ lists' = r.lists
           /\ data' = r.data
           /\ got' = DeliverAll(NoCalls, obs[r.k].cbs, r.fired)
           /\ w' = [op |-> op, k |-> r.k, arg |-> other, old |-> obs[r.k].value,
                    batch |-> FALSE, muts |-> muts, fired |-> r.fired, exc |-> r.exc,
                    cbs |-> obs[r.k].cbs, order |-> notify_calls(obs[r.k].cbs, r.fired), ret |-> "None"]
    /\ before' = Snapshot(St, "A")
    /\ UNCHANGED <<cls, pw, declared, decorators, events, view_context, other_listeners, muts, opened, heard, dispVars>>

InPlaceOps == {"+", "-", "*"}

Operands == {PyInt(0), PyInt(1), NaN}

\* model = CounterModel(); context.map_command("INCREMENT",
\* IncrementCommand(model)); model.on_change("count", f);
\* model.on_change("history", g)
InitCounter ==
    /\ listeners = map_command(NoReg, "INCREMENT", Lambda("inc", 1))
    /\ stack = <<>>
    /\ last = [op |-> "init", name |-> "-", cb |-> NoCb, data |-> [key \in {} |-> None], before |-> NoReg, status |-> "returned"]
    /\ calls = NoCalls
    /\ execs = NoCalls
    /\ lambdas = 1
    /\ maps = [n \in {"INCREMENT"}, cmd \in {"inc"} |-> 1]
    /\ LET st == init_state_properties([obs |-> <<>>, lists |-> <<<<>>>>, data |-> NoData], Declared("M"), "A")
       IN  /\ obs = [st.obs EXCEPT ![st.data["count"]["A"]] = on_change(@, "f"),
                                   ![st.data["history"]["A"]] = on_change(@, "g")]
           /\ lists = st.lists
           /\ data = st.data
    /\ declared = <<>>
    /\ decorators = {}
    /\ events = <<>>
    /\ view_context = "ctx"
    /\ other_listeners = NoReg
    /\ cls = [i \in Insts |-> IF i = "A" THEN "M" ELSE "none"]
    /\ pw = NoPw
    /\ before = NoBefore
    /\ got = NoCalls
    /\ w = NoW
    /\ muts = 0
    /\ opened = 0
    /\ heard = NoHeard

NextCounter ==
    \/ \E n \in {"INCREMENT", "OTHER"}, d \in Dicts : CounterDispatch(n, d)
    \/ \E op \in InPlaceOps, other \in Operands : InPlace(op, other)
    \/ \E v \in {PyInt(0), NaN} : SetAttr("A", "count", v)

SpecCounter == InitCounter /\ [][NextCounter]_vars

(***************************************************************************)
(* The counter example, one listener at a time: the dispatches a context   *)
(* makes for INCREMENT, to which the IncrementCommand is mapped, for RELAY, *)
(* which has the command mapped too and a listener that dispatches         *)
(* INCREMENT through the context while it is invoked, and for a name       *)
(* without listeners.                                                      *)
(***************************************************************************)

SyncNames == {"INCREMENT", "RELAY", "OTHER"}

\* context.dispatch(Event(n, d)), up to the for statement.
SyncDispatch(n, d) ==
    /\ stack = <<>>
    /\ context_dispatch_validates(Event(n, d)) = "none"
    /\ dispatch_validates(Event(n, d)) = "none"
    /\ LET b == dispatch_begin(listeners, n)
       IN  /\ listeners' = b.reg
           /\ stack' = IF b.iterate THEN <<Frame(Event(n, d), b.reg)>> ELSE <<>>
           /\ last' = [op |-> "dispatch", name |-> n, cb |-> NoCb, data |-> d, before |-> listeners,
                       status |-> IF b.iterate THEN "running" ELSE "returned"]
    /\ calls' = NoCalls
    /\ execs' = NoCalls
    /\ got' = NoCalls
    /\ w' = NoW
    /\ before' = Snapshot(St, "A")
    /\ UNCHANGED <<lambdas, maps, obs, lists, muts, opened, heard, cls, data, pw, declared, decorators, events, view_context, other_listeners>>

\* One step of the for statement of the innermost running dispatch: the
\* dispatch returns, or the next listener is invoked and runs until it returns.
\* No listener here changes the registry.
SyncStep ==
    /\ stack # <<>>
    /\ UNCHANGED <<listeners, lambdas, maps, w, muts, opened, heard, cls, pw, declared, decorators, events, view_context, other_listeners, before>>
    /\ LET f == stack[Depth]
           kc == data["count"]["A"]
           kh == data["history"]["A"]
       IN  IF f.pending = {}
           THEN /\ stack' = Pop(stack)
                /\ last' = [last EXCEPT !.status = IF Depth = 1 THEN "returned" ELSE "running"]
                /\ UNCHANGED <<calls, execs, obs, lists, data, got>>
           ELSE \E c \in f.pending :
                /\ calls' = IF Depth = 1 THEN Record(calls, c, dispatch_passes(f.event)) ELSE calls
                /\ IF c.kind = "lambda"
                   THEN \* command.execute(event.data): the model is changed and
                        \* its containers notify within the call.
                        \E r \in {execute(St, "A", lambda_payload(dispatch_passes(f.event)))} :
                            /\ Len(r.lists[r.obs[kh].value.v]) <= MaxLen
                            /\ InRangeCount(r.obs[kc].value)
                            /\ execs' = Record(execs, c.cmd, lambda_payload(dispatch_passes(f.event)))
                            /\ obs' = r.obs
                            /\ lists' = r.lists
                            /\ data' = r.data
                            /\ got' = DeliverAll(DeliverAll(got, obs[kc].cbs, r.cfired), obs[kh].cbs, r.hfired)
                            /\ stack' = AfterListener(Taken(stack, c), r.exc)
                            /\ last' = [last EXCEPT !.status = Status(stack', r.exc)]
                   ELSE \* context.dispatch(Event("INCREMENT", event.data)) from
                        \* the listener
                        /\ LET b == dispatch_begin(listeners, "INCREMENT")
                           IN  stack' = IF b.iterate
                                        THEN Append(Taken(stack, c), Frame(Event("INCREMENT", f.event.data), b.reg))
                                        ELSE Taken(stack, c)
                        /\ UNCHANGED <<last, execs, obs, lists, data, got>>

\* CounterContext(): the model, the command mapped to INCREMENT and to RELAY,
\* the relaying listener, and the callbacks f on count and g on history.
InitSync ==
    /\ listeners = add_listener(map_command(map_command(NoReg, "INCREMENT", Lambda("inc", 1)), "RELAY", Lambda("inc", 2)),
                                "RELAY", Cb("chain"))
    /\ stack = <<>>
    /\ last = [op |-> "init", name |-> "-", cb |-> NoCb, data |-> [key \in {} |-> None], before |-> NoReg, status |-> "returned"]
    /\ calls = NoCalls
    /\ execs = NoCalls
    /\ lambdas = 2
    /\ maps = [n \in {"INCREMENT", "RELAY"}, cmd \in {"inc"} |-> 1]
    /\ LET st == init_state_properties([obs |-> <<>>, lists |-> <<<<>>>>, data |-> NoData], Declared("M"), "A")
       IN  /\ obs = [st.obs EXCEPT ![st.data["count"]["A"]] = on_change(@, "f"),
                                   ![st.data["history"]["A"]] = on_change(@, "g")]
           /\ lists = st.lists
           /\ data = st.data
    /\ declared = <<>>
    /\ decorators = {}
    /\ events = <<>>
    /\ view_context = "ctx"
    /\ other_listeners = NoReg
    /\ cls = [i \in Insts |-> IF i = "A" THEN "M" ELSE "none"]
    /\ pw = NoPw
    /\ before = NoBefore
    /\ got = NoCalls
    /\ w = NoW
    /\ muts = 0
    /\ opened = 0
    /\ heard = NoHeard

NextSync ==
    \/ \E n \in SyncNames, d \in Dicts : SyncDispatch(n, d)
    \/ SyncStep
    \/ \E v \in {PyInt(0)} : SetAttr("A", "count", v) /\ stack = <<>>
    \/ SetAttr("A", "history", None) /\ stack = <<>>

SpecSync == InitSync /\ [][NextSync]_vars

(***************************************************************************)
(* The counter with change callbacks that raise                            *)
(***************************************************************************)

\* The chains registered on the count and on the history of the model: two
\* recorders, with or without a raising callback between them.
Chains == {<<"f", "g">>, <<"f", "boom", "g">>}

RECURSIVE on_change_all(_, _)
on_change_all(o, cbs) == IF cbs = <<>> THEN o ELSE on_change_all(on_change(o, Head(cbs)), Tail(cbs))

\* CounterContext(), then model.on_change(name, cb) for each callback of the
\* two chains.
InitRaise ==
    /\ listeners = map_command(NoReg, "INCREMENT", Lambda("inc", 1))
    /\ stack = <<>>
    /\ last = [op |-> "init", name |-> "-", cb |-> NoCb, data |-> [key \in {} |-> None], before |-> NoReg, status |-> "returned"]
    /\ calls = NoCalls
    /\ execs = NoCalls
    /\ lambdas = 1
    /\ maps = [n \in {"INCREMENT"}, cmd \in {"inc"} |-> 1]
    /\ \E cc \in Chains, hc \in Chains :
       \E st \in {init_state_properties([obs |-> <<>>, lists |-> <<<<>>>>, data |-> NoData], Declared("M"), "A")} :
           /\ obs = [st.obs EXCEPT ![st.data["count"]["A"]] = on_change_all(@, cc),
                                   ![st.data["history"]["A"]] = on_change_all(@, hc)]
           /\ lists = st.lists
           /\ data = st.data
    /\ declared = <<>>
    /\ decorators = {}
    /\ events = <<>>
    /\ view_context = "ctx"
    /\ other_listeners = NoReg
    /\ cls = [i \in Insts |-> IF i = "A" THEN "M" ELSE "none"]
    /\ pw = NoPw
    /\ before = NoBefore
    /\ got = NoCalls
    /\ w = NoW
    /\ muts = 0
    /\ opened = 0
    /\ heard = NoHeard

\* The length the history is let grow to where callbacks raise.
MaxHist == 2

ShortHistory(l) == Len(l[obs[data["history"]["A"]].value.v]) <= MaxHist

NextRaise ==
    \/ \E d \in Dicts : CounterDispatch("INCREMENT", d) /\ ShortHistory(lists')
    \/ \E v \in {PyInt(0), PyInt(1)} : SetAttr("A", "count", v)
    \/ AppendAttr("A", "a") /\ ShortHistory(lists')
    \/ Clear(data["history"]["A"])

SpecRaise == InitRaise /\ [][NextRaise]_vars

(***************************************************************************)
(* Claims about the dispatcher, checked under SpecDisp                     *)
(***************************************************************************)

\* The listeners the last call's name had when the call started.
Before == IF last.name \in DOMAIN last.before THEN last.before[last.name] ELSE {}

\* A dispatch of an Event has finished.
DispatchDone == last.op = "dispatch" /\ last.status # "running" /\ isinstance_Event(Event(last.name, last.data))

Plain(S) == \A c \in S : c.kind \in {"ok", "bad"}

\* C1: when the listeners of the event's name only return or raise, a finished
\* dispatch has returned normally, has invoked every listener registered for
\* the name once, with the event dispatched, and has left the registry as it
\* was.
C1_DispatchIsolation ==
    (DispatchDone /\ Plain(Before)) =>
        /\ last.status = "returned"
        /\ DOMAIN calls = Before
        /\ \A c \in Before : calls[c] = <<Event(last.name, last.data)>>
        /\ listeners = last.before

\* C1 witness: a dispatch to a raising and a returning listener has finished.
C1_Witness ==
    /\ DispatchDone
    /\ Plain(Before)
    /\ {Cb("bad"), Cb("ok")} \subseteq Before
    /\ {Cb("bad"), Cb("ok")} \subseteq DOMAIN calls

\* C8 (as claimed): whatever the listeners do while they are invoked (add or
\* remove a listener of the event's name, dispatch a further event), a finished
\* dispatch has returned normally and has invoked once every listener that was
\* registered for the name when it started.
C8_ReentryTolerated ==
    DispatchDone =>
        /\ last.status = "returned"
        /\ \A c \in Before : c \in DOMAIN calls /\ Len(calls[c]) = 1

\* C9 (as claimed): in every state that calls of add_listener, remove_listener
\* and dispatch reach, no name of the registry maps to an empty set of
\* listeners; removing the last listener of a name deletes the name's entry,
\* and neither a dispatch nor a removal for a name without an entry creates one.
C9_NoEmptyEntry ==
    /\ \A n \in DOMAIN listeners : listeners[n] # {}
    /\ (last.op = "remove" /\ Before = {last.cb}) => last.name \notin DOMAIN listeners
    /\ (last.op \in {"remove", "dispatch"} /\ last.name \notin DOMAIN last.before /\ stack = <<>>)
          => last.name \notin DOMAIN listeners

\* C9 witness: the last listener of a name was removed while the other name
\* keeps its listeners.
C9_Witness ==
    /\ last.op = "remove"
    /\ Before = {last.cb}
    /\ last.name \notin DOMAIN listeners
    /\ DOMAIN listeners # {}

\* C10 (as claimed): remove_listener with a well-formed name and a callable,
\* for a name without an entry or for a callback that is not registered under
\* the name, raises nothing and leaves the whole registry as it was.
C10_RemoveUnknownIsNoOp ==
    (last.op = "remove" /\ validate_listener_args(last.name, last.cb) = "none" /\ last.cb \notin Before) =>
        /\ last.status = "returned"
        /\ listeners = last.before

\* C10 witness: an unregistered callback was removed from a name that has other
\* listeners, while the other name has listeners too.
C10_Witness ==
    /\ last.op = "remove"
    /\ last.cb \notin Before
    /\ Before # {}
    /\ Other(last.name) \in DOMAIN listeners

\* C11: add_listener is idempotent per name and callback.  A successful call
\* leaves the callback registered under the name next to the listeners that
\* were there, and leaves the whole registry as it was when the callback was
\* registered under the name already; a dispatch then invokes it once, and one
\* successful remove_listener leaves it unregistered.
C11_AddIdempotent ==
    /\ (last.op = "add" /\ last.status = "returned") =>
          /\ listeners[last.name] = Before \cup {last.cb}
          /\ \A n \in DOMAIN listeners \cup DOMAIN last.before : n # last.name =>
                n \in DOMAIN listeners /\ n \in DOMAIN last.before /\ listeners[n] = last.before[n]
          /\ last.cb \in Before => listeners = last.before
    /\ (DispatchDone /\ last.status = "returned") => \A c \in DOMAIN calls : Len(calls[c]) = 1
    /\ (last.op = "remove" /\ last.status = "returned") =>
          \A n \in DOMAIN listeners : n = last.name => last.cb \notin listeners[n]

\* C11 witness: a callback was added under a name it was registered under,
\* next to another listener.
C11_Witness ==
    /\ last.op = "add"
    /\ last.status = "returned"
    /\ last.cb \in Before
    /\ Cardinality(Before) = 2

\* The warning of dispatch is logged: the call took the early return.
Warned == last.op = "dispatch" /\ ~dispatch_begin(last.before, last.name).iterate

OnlyElsewhere == UNION {last.before[n] : n \in DOMAIN last.before \ {last.name}} \ Before

\* C13: dispatch routes by name.  The callbacks a dispatch invokes are
\* registered under the event's name and receive the event dispatched; none
\* registered under another name only is invoked; and when the listeners of
\* the name only return or raise, each of them has been invoked once when the
\* dispatch is finished.
C13_RoutesByName ==
    /\ last.op = "dispatch" =>
          /\ DOMAIN calls \subseteq Before
          /\ DOMAIN calls \cap OnlyElsewhere = {}
          /\ \A c \in DOMAIN calls : \A i \in 1..Len(calls[c]) : calls[c][i] = Event(last.name, last.data)
    /\ (DispatchDone /\ Plain(Before)) => \A c \in Before : c \in DOMAIN calls /\ Len(calls[c]) = 1

\* C13 witness: a dispatch has finished that invoked the listeners of its name
\* while the other name has a listener registered under it only.
C13_Witness ==
    /\ DispatchDone
    /\ Plain(Before)
    /\ Cardinality(DOMAIN calls) = 2
    /\ OnlyElsewhere # {}

(***************************************************************************)
(* Claims about Event, checked under SpecEvent                             *)
(***************************************************************************)

\* C22 (as claimed): the name of every Event object is a non-empty string, and
\* an assignment to a field of an Event leaves every Event object as it was.
C22_EventImmutable ==
    /\ \A e \in DOMAIN events : isinstance_str(events[e].name) /\ events[e].name # ""
    /\ last.op = "setattr" => events = last.before

\* C22, the part that holds: an Event object leaves its constructor with a
\* non-empty string as its name.
C22_NameAtConstruction ==
    (last.op = "Event" /\ last.ref # 0) => (isinstance_str(events[last.ref].name) /\ events[last.ref].name # "")

\* The names Event construction is claimed to accept: the non-empty strings.
WellFormedName(n) == isinstance_str(n) /\ n # ""

\* C23: Event(n, d) returns an object exactly when n is a non-empty string;
\* the object holds n and d, or n and None when no payload was given; a call
\* with another name raises SwallowArgumentError and adds no Event object.
C23_EventConstruction ==
    last.op = "Event" =>
        IF WellFormedName(last.name)
        THEN /\ last.status = "returned"
             /\ events = Append(last.before, [name |-> last.name, data |-> IF last.data = Omitted THEN "None" ELSE last.data])
        ELSE /\ last.status = "SwallowArgumentError"
             /\ last.ref = 0
             /\ events = last.before

\* C23 witnesses: a construction without payload, one with a payload, and one
\* rejected for a name that is no string.
C23_Witness ==
    /\ last.op = "Event"
    /\ last.name = "X"
    /\ last.data = Omitted
    /\ events = <<[name |-> "X", data |-> "None"]>>

C23_WitnessPayload ==
    /\ last.op = "Event"
    /\ last.data = "p"
    /\ Len(events) = 2
    /\ events[2] = [name |-> "Y", data |-> "p"]

C23_WitnessRejected ==
    /\ last.op = "Event"
    /\ last.name \in {NotAStr, NoneName, ""}
    /\ last.status = "SwallowArgumentError"
    /\ Len(events) = 1

(***************************************************************************)
(* Claims about argument validation, checked under SpecArgs                *)
(***************************************************************************)

\* The last call was given an ill-formed argument: an event name that is not a
\* str or is empty or blank, a callback that is not callable, an event that is
\* no Event, a command that is no Command.
BadName == ~isinstance_str(last.name) \/ str_strip(last.name) = ""

IllFormed ==
    \/ last.op \in {"add", "remove"} /\ (BadName \/ ~callable(last.cb))
    \/ last.op = "dispatch" /\ ~isinstance_Event(Event(last.name, last.data))
    \/ last.op = "map" /\ (BadName \/ ~isinstance_Command(last.cb.cmd))

C15_WitnessMap ==
    /\ last.op = "map"
    /\ ~isinstance_Command(last.cb.cmd)
    /\ ~BadName
    /\ Before # {}

\* C15 witness: add_listener was given a blank name.
C15_WitnessAdd ==
    /\ last.op = "add"
    /\ last.name = " "
    /\ callable(last.cb)
    /\ DOMAIN listeners = Names

\* The number of times a finished dispatch executed cmd.
Executed(cmd) == IF cmd \in DOMAIN execs THEN Len(execs[cmd]) ELSE 0

\* C27: the view holds the context it was constructed with, an assignment to
\* view.context raises AttributeError, and a dispatch through the view does
\* what the same dispatch through the context does: given what is no Event it
\* raises SwallowArgumentError and invokes nothing; given an Event it returns
\* after invoking each listener registered under the event's name once, with
\* the event, executing each mapped command once per mapping, and leaves the
\* registry as it was.
C27_ViewPassesThrough ==
    /\ view_context = "ctx"
    /\ other_listeners = NoReg
    /\ last.op = "view.context" => last.status = "AttributeError" /\ listeners = last.before
    /\ (last.op = "dispatch" /\ last.cb \in {Via("context"), Via("view")}) =>
          /\ ~isinstance_Event(Event(last.name, last.data)) =>
                last.status = "SwallowArgumentError" /\ calls = NoCalls /\ execs = NoCalls /\ stack = <<>>
          /\ DispatchDone =>
                /\ last.status = "returned"
                /\ DOMAIN calls = Before
                /\ \A c \in Before : calls[c] = <<Event(last.name, last.data)>>
                /\ \A cmd \in Cmds : Executed(cmd) = Cardinality({c \in Before : c.kind = "lambda" /\ c.cmd = cmd})
                /\ listeners = last.before

\* C27 witnesses: a dispatch through the view has invoked a raising listener
\* and a mapped command; an assignment of the other context to view.context
\* was attempted while listeners were registered.
C27_Witness ==
    /\ DispatchDone
    /\ last.cb = Via("view")
    /\ Cb("bad") \in Before
    /\ Executed("c1") = 1
    /\ Cardinality(Before) = 3

C27_WitnessAssign ==
    /\ last.op = "view.context"
    /\ last.name = "other"
    /\ last.status = "AttributeError"
    /\ listeners # NoReg

(***************************************************************************)
(* Claims about Context, checked under SpecCtx                             *)
(***************************************************************************)

\* The number of map_command(name, cmd) calls made, name being the name of the
\* last call.
Mapped(cmd) == maps[last.name, cmd]

\* C6: a finished dispatch of Event(X, payload) has called execute(payload)
\* exactly once on each command that was mapped once to X, and has not called
\* execute on a command that is mapped to other names only.
C6_MapThenDispatch ==
    DispatchDone =>
        \A cmd \in Cmds :
            /\ Mapped(cmd) = 1 => cmd \in DOMAIN execs /\ execs[cmd] = <<last.data>>
            /\ Mapped(cmd) = 0 => cmd \notin DOMAIN execs

\* C6 witness: two commands were each mapped once to the dispatched name and
\* both were executed; a third mapping is under the other name.
C6_Witness ==
    /\ DispatchDone
    /\ \A cmd \in Cmds : Mapped(cmd) = 1 /\ cmd \in DOMAIN execs
    /\ Other(last.name) \in DOMAIN listeners

\* C26: a command mapped once to each of several names is executed exactly
\* once by a finished dispatch of any one of them, with the payload of the
\* event that was dispatched, whatever was dispatched before.
C26_OneCommandSeveralNames ==
    DispatchDone =>
        \A cmd \in Cmds :
            (\A n \in Names : maps[n, cmd] = 1) => cmd \in DOMAIN execs /\ execs[cmd] = <<last.data>>

\* C26 witnesses: c1 is mapped to both names; a dispatch of Y with q executed
\* it with q, a dispatch of X with p executed it with p.
C26_Witness ==
    /\ DispatchDone
    /\ maps["X", "c1"] = 1 /\ maps["Y", "c1"] = 1
    /\ last.name = "Y" /\ last.data = "q"
    /\ execs["c1"] = <<"q">>

C26_WitnessOtherName ==
    /\ DispatchDone
    /\ maps["X", "c1"] = 1 /\ maps["Y", "c1"] = 1
    /\ last.name = "X" /\ last.data = "p"
    /\ execs["c1"] = <<"p">>

\* C32: mapping is idempotent per (name, command): a finished dispatch of
\* Event(X, payload) has called execute(payload) exactly once on every command
\* mapped to X, however many times map_command(X, cmd) was called.
C32_MapIsIdempotent ==
    DispatchDone =>
        \A cmd \in Cmds : Mapped(cmd) >= 1 => cmd \in DOMAIN execs /\ execs[cmd] = <<last.data>>

\* C32 fails: map_command(X, c1) was called twice, each call registered a
\* lambda of its own, and one dispatch of X executed c1 twice.
C32_MappedTwiceRunsTwice ==
    /\ DispatchDone
    /\ Mapped("c1") = 2
    /\ Cardinality({l \in listeners[last.name] : l.kind = "lambda" /\ l.cmd = "c1"}) = 2
    /\ execs["c1"] = <<last.data, last.data>>

(***************************************************************************)
(* Claims about the observable containers, checked under SpecVal, SpecList *)
(***************************************************************************)

\* What a chain cbs of recorders has received once it was invoked with each of
\* vals: every registration receives every value.
Received(cbs, vals) == DeliverAll(NoCalls, cbs, vals)

\* C2: a set to a value equal to the current one invokes no callback and
\* leaves the stored value; a set to a different value stores it and invokes
\* each registered callback once, with the new value.
C2_SetNotifiesOnChange ==
    (w.op = "set" /\ w.exc = "none") =>
        IF plain_ne(w.old, w.arg)
        THEN /\ obs[w.k].value = w.arg
             /\ w.fired = <<w.arg>>
             /\ got = Received(obs[w.k].cbs, <<w.arg>>)
             /\ \A cb \in DOMAIN got : \A i \in 1..Len(got[cb]) : got[cb][i] = w.arg
        ELSE /\ obs[w.k].value = w.old
             /\ w.fired = <<>>
             /\ got = NoCalls

\* C2 witness: a value was set to itself on a container with two callbacks,
\* and nothing was invoked.
C2_Witness ==
    /\ w.op = "set"
    /\ w.arg = w.old
    /\ w.arg = PyInt(1)
    /\ Len(obs[w.k].cbs) = 2
    /\ got = NoCalls

\* A callback wrote to the observable during the notification of the last set.
Reentered == \E cb \in Reactors \cap DOMAIN got : \E j \in 1..Len(got[cb]) : got[cb][j] = Trigger

\* The last value every registered callback received is the current value.
EndConsistent ==
    \A j \in 1..Len(obs[w.k].cbs) :
        /\ obs[w.k].cbs[j] \in DOMAIN got
        /\ got[obs[w.k].cbs[j]][Len(got[obs[w.k].cbs[j]])] = obs[w.k].value

\* C31: if a callback of an ObservableValue sets that observable to another
\* value during a notification, then once the outermost set has returned the
\* last value each registered callback received is the container's current
\* value.  Checked under SpecNested.
C31_ReentrantSetsEndConsistent ==
    (w.op = "set" /\ w.exc = "none" /\ Reentered) => EndConsistent

\* C31 holds when the writing callback is the last of the chain: the
\* callbacks before it were all handed the value of the nested set last.
C31_HoldsWhenWriterIsLast ==
    (/\ w.op = "set" /\ w.exc = "none" /\ Reentered
     /\ \A j \in 1..(Len(obs[w.k].cbs) - 1) : obs[w.k].cbs[j] \notin Reactors) => EndConsistent

\* C31 fails: "to2" is registered before the recorder "f"; o.value = 1 hands 1
\* to "to2", which sets 2 and has the whole chain handed 2, and then the
\* outer chain hands the recorder the value 1 that is no longer stored.
C31_StaleValueLast ==
    /\ w.op = "set" /\ w.exc = "none"
    /\ w.arg = PyInt(1)
    /\ obs[w.k].cbs = <<"to2", "f">>
    /\ obs[w.k].value = PyInt(2)
    /\ got["f"] = <<PyInt(2), PyInt(1)>>

Mutators == {"setitem", "delitem", "insert", "append", "remove", "extend", "clear", "pop"}

\* C3: N being the number of mutations made since the begin_batch_update that
\* precedes them: no notification fires while the batch is active; when N >= 1,
\* end_batch_update fires exactly one notification, with the final contents;
\* when N = 0, end_batch_update fires none.
C3_BatchCoalesces ==
    /\ obs[1].batch => w.fired = <<>> /\ got = NoCalls
    /\ (w.op \in Mutators /\ w.batch) => w.fired = <<>> /\ got = NoCalls
    /\ (w.op = "end" /\ w.batch /\ w.muts >= 1) =>
          /\ w.fired = <<Snap(Contents(w.k))>>
          /\ got = Received(obs[w.k].cbs, <<Snap(Contents(w.k))>>)
    /\ (w.op = "end" /\ w.batch /\ w.muts = 0) => w.fired = <<>> /\ got = NoCalls

\* C3 witness: a batch of two mutations that changed the contents has ended
\* and the callbacks received the final contents.
C3_Witness ==
    /\ w.op = "end"
    /\ w.batch
    /\ w.muts = 2
    /\ Contents(w.k) = <<"a", "b">>
    /\ "f" \in DOMAIN got
    /\ got["f"] = <<Snap(<<"a", "b">>)>>

\* C14: outside a batch, a mutator of an ObservableList that returns has
\* invoked every registered callback once, with the contents the list has
\* after the mutation, also when the contents are what they were (clear of an
\* empty list, extend with nothing); a read invokes nothing and leaves the
\* contents.
C14_MutatorsNotifyOnce ==
    /\ (w.op \in Mutators /\ ~w.batch /\ w.exc = "none") =>
          /\ w.fired = <<Snap(Contents(w.k))>>
          /\ got = Received(obs[w.k].cbs, <<Snap(Contents(w.k))>>)
          /\ \A i \in 1..Len(obs[w.k].cbs) : got[obs[w.k].cbs[i]] # <<>>
    /\ (w.op = "clear" /\ ~w.batch) => Contents(w.k) = <<>> /\ w.fired = <<Snap(<<>>)>>
    /\ (w.op = "extend" /\ ~w.batch /\ w.arg = Snap(<<>>)) => Snap(Contents(w.k)) = w.old /\ w.fired = <<w.old>>
    /\ w.op = "read" => w.fired = <<>> /\ got = NoCalls /\ Snap(Contents(w.k)) = w.old

\* C14 witness: an empty list with two callbacks was cleared outside a batch,
\* and both callbacks received the empty contents.
C14_Witness ==
    /\ w.op = "clear"
    /\ ~w.batch
    /\ w.old = Snap(<<>>)
    /\ Len(obs[w.k].cbs) = 2
    /\ \A i \in 1..2 : Len(got[obs[w.k].cbs[i]]) >= 1

\* The sequence cbs, n times over.
RECURSIVE Times(_, _)
Times(cbs, n) == IF n = 0 THEN <<>> ELSE cbs \o Times(cbs, n - 1)

\* The number of registrations of cb in the chain cbs.
Registrations(cbs, cb) == Cardinality({j \in 1..Len(cbs) : cbs[j] = cb})

\* C17: a registration returns the callback it was given, invokes nothing and
\* leaves the chain as it was with the callback appended; a call that notifies
\* invokes the callbacks registered so far in the order of their registration,
\* each once per registration, and leaves the chain as it was.
C17_ChainInRegistrationOrder ==
    /\ w.op = "on_change" =>
          /\ obs[w.k].cbs = Append(w.cbs, w.arg.s[1])
          /\ w.ret = w.arg.s[1]
          /\ w.order = <<>>
          /\ got = NoCalls
    /\ w.op \notin {"init", "on_change"} =>
          /\ obs[w.k].cbs = w.cbs
          /\ w.order = Times(w.cbs, Len(w.fired))
          /\ \A cb \in Watchers :
                IF Registrations(w.cbs, cb) * Len(w.fired) = 0 THEN cb \notin DOMAIN got
                ELSE cb \in DOMAIN got /\ Len(got[cb]) = Registrations(w.cbs, cb) * Len(w.fired)

\* C17 witness: a callback registered twice was invoked twice by one
\* notification.
C17_Witness ==
    /\ w.cbs = <<"f", "f">>
    /\ Len(w.fired) = 1
    /\ w.order = <<"f", "f">>
    /\ Len(got["f"]) = 2

\* C17 witness: g was registered before f and was invoked before f.
C17_WitnessOrder ==
    /\ w.cbs = <<"g", "f">>
    /\ w.order = <<"g", "f">>

\* C36: a mutation of the list that fails (remove of a value that is absent,
\* pop from an empty list or at an index out of range, index assignment or
\* deletion out of range) leaves the contents and the container as they
\* were, the pending flag of a batch included, and invokes no callback; the
\* exception of the list operation leaves the call.
C36_FailedMutationChangesNothing ==
    [][(w'.op \in Mutators /\ w'.exc # "none") =>
          /\ w'.exc \in {"ValueError", "IndexError"}
          /\ lists' = lists
          /\ obs' = obs
          /\ w'.fired = <<>>
          /\ got' = NoCalls]_vars

\* C36 witnesses: within a batch with nothing pending, a callback being
\* registered, remove("b") on a list without "b" raised ValueError; outside a
\* batch pop() on the empty list raised IndexError; an index assignment out of
\* range raised IndexError within a batch whose notification is pending.
C36_Witness ==
    /\ w.op = "remove"
    /\ w.exc = "ValueError"
    /\ w.old = Snap(<<"a">>)
    /\ w.cbs # <<>>
    /\ obs[w.k].batch
    /\ ~obs[w.k].pending
    /\ Contents(w.k) = <<"a">>

C36_WitnessPopEmpty ==
    /\ w.op = "pop"
    /\ w.exc = "IndexError"
    /\ w.old = Snap(<<>>)
    /\ w.cbs # <<>>
    /\ ~obs[w.k].batch
    /\ got = NoCalls

C36_WitnessSetItemPending ==
    /\ w.op = "setitem"
    /\ w.exc = "IndexError"
    /\ w.cbs # <<>>
    /\ obs[w.k].batch
    /\ obs[w.k].pending
    /\ got = NoCalls

(***************************************************************************)
(* Claims about nested batches, checked under SpecBatch                    *)
(***************************************************************************)

\* C25: the batch state of a list is one flag.  Every end_batch_update leaves
\* the batch inactive with nothing pending, also the inner one of two nested
\* pairs (a begin_batch_update of the caller is still unmatched); a mutation
\* made while the batch is inactive notifies at once, with the contents it
\* leaves; an end_batch_update called while the batch is inactive, which the
\* outer one of two nested pairs is, fires nothing.
C25_NestedPairsDoNotCompose ==
    /\ w.op = "end" => ~obs[w.k].batch /\ ~obs[w.k].pending
    /\ (w.op \in Mutators /\ ~w.batch /\ w.exc = "none") =>
          /\ w.fired = <<Snap(Contents(w.k))>>
          /\ got = Received(obs[w.k].cbs, <<Snap(Contents(w.k))>>)
    /\ (w.op = "end" /\ ~w.batch) => w.fired = <<>> /\ got = NoCalls
    /\ ~obs[1].batch => ~obs[1].pending

\* C25 witness: after begin, begin, end (one begin still unmatched) an append
\* notified the registered callback at once.
C25_Witness ==
    /\ w.op = "append"
    /\ opened = 1
    /\ ~w.batch
    /\ obs[1].cbs = <<"f">>
    /\ got = [c \in {"f"} |-> <<Snap(Contents(1))>>]

\* C25 witnesses: the inner end of two nested pairs, which fired the pending
\* notification, and an end called while the batch was inactive.
C25_WitnessInnerEnd ==
    /\ w.op = "end"
    /\ w.batch
    /\ opened = 1
    /\ obs[1].cbs = <<"f">>
    /\ w.fired # <<>>

C25_WitnessOuterEnd ==
    /\ w.op = "end"
    /\ ~w.batch
    /\ opened = 0
    /\ obs[1].cbs = <<"f">>
    /\ heard.mutated
    /\ w.fired = <<>>

\* C29 (as claimed): whenever the batch is inactive and the list was mutated
\* since the callback was registered, the last notification the callback
\* received carried the contents the list has now.
C29_NoMutationLost ==
    (obs[1].cbs # <<>> /\ ~obs[1].batch /\ heard.mutated) => heard.val = Snap(Contents(1))

\* C29, the case named in the claim: begin, mutate, begin, end, with the
\* mutation never delivered.
C29_LostInNestedBegin ==
    /\ w.op = "end"
    /\ w.batch
    /\ w.fired = <<>>
    /\ heard.mutated
    /\ ~obs[1].batch
    /\ heard.val # Snap(Contents(1))

(***************************************************************************)
(* Claims about StateProperty (SpecProp)                                   *)
(***************************************************************************)

Has(i, p) == i \in DOMAIN data[p]

\* The value instance i's attribute p reads as: the scalar, or the elements.
Field(i, p) == IF obs[data[p][i]].kind = "list" THEN Snap(Contents(data[p][i])) ELSE obs[data[p][i]].value

DeclaredValue(p) == IF p = "count" THEN PyInt(0) ELSE Snap(declared)

\* C4: two instances never share a container or its list: whatever was written
\* to A's fields, each field of B holds its declared initial value, the
\* callbacks registered on B are not invoked, and the list the sequence
\* property was declared with is unchanged.
C4_InstancesIsolated ==
    /\ \A p \in Props :
        /\ (Has("A", p) /\ Has("B", p)) => data[p]["A"] # data[p]["B"]
        /\ Has("B", p) => Field("B", p) = DeclaredValue(p)
    /\ (Has("A", "history") /\ Has("B", "history")) =>
           obs[data["history"]["A"]].value # obs[data["history"]["B"]].value
    /\ \A i \in Insts : Has(i, "history") => obs[data["history"][i]].value # ListRef(1)
    /\ "g" \notin DOMAIN got
    /\ lists[1] = declared

C4_Witness ==
    /\ declared = <<"a">>
    /\ Has("A", "count") /\ Has("A", "history")
    /\ Has("B", "count") /\ Has("B", "history")
    /\ Field("A", "count") = PyInt(1)
    /\ Field("A", "history") = Snap(<<"b", "b">>)
    /\ obs[data["history"]["B"]].cbs = <<"g">>
    /\ pw.op = "append"
    /\ w.fired = <<Snap(<<"b", "b">>)>>

Pairs == {pi \in Props \X Insts : Has(pi[2], pi[1])}

Accesses == {"get", "setattr", "append", "on_change"}

\* C5: each (property, instance) pair has one container.  The first access
\* creates exactly one, seeded with the declared initial value; a later read,
\* write or registration uses the container the pair already has; the access
\* through the class returns the descriptor and creates nothing.
C5_OneContainerPerPair ==
    /\ Len(obs) = Cardinality(Pairs)
    /\ \A x, y \in Pairs : data[x[1]][x[2]] = data[y[1]][y[2]] => x = y
    /\ pw.op \in Accesses =>
        /\ pw.ret = data[pw.prop][pw.inst]
        /\ IF pw.had
           THEN pw.ret = pw.kold /\ Len(obs) = pw.nobs
           ELSE /\ pw.ret = pw.nobs + 1
                /\ Len(obs) = pw.nobs + 1
                /\ pw.op \in {"get", "on_change"} => Field(pw.inst, pw.prop) = DeclaredValue(pw.prop)
                /\ (pw.op = "setattr" /\ pw.prop = "count") => (w.fired = <<>> <=> w.arg = PyInt(0))
                /\ pw.op = "setattr" => Field(pw.inst, pw.prop) = (IF pw.prop = "history" /\ w.arg = None THEN Snap(<<>>) ELSE w.arg)
    /\ pw.op = "construct" => \A p \in Props : Has(pw.inst, p) => Field(pw.inst, p) = DeclaredValue(p)
    /\ pw.op = "classget" => pw.ret = DescriptorItself /\ Len(obs) = pw.nobs

C5_Witness ==
    /\ pw.op = "on_change"
    /\ pw.had
    /\ pw.inst = "A"
    /\ pw.prop = "history"
    /\ cls["A"] = "Sub"
    /\ Field("A", "history") = Snap(<<"b">>)
    /\ obs[pw.ret].cbs = <<"f">>
    /\ Len(obs) = 3

C5_WitnessLazy ==
    /\ pw.op = "setattr"
    /\ ~pw.had
    /\ pw.prop = "count"
    /\ w.arg = PyInt(1)
    /\ Len(obs) = 2

C5_WitnessClass ==
    /\ pw.op = "classget"
    /\ Len(obs) = 4

\* The elements a value assigned to a sequence property holds.
Elements(v) == IF v.t = "None" THEN <<>> ELSE v.s

\* C16: an assignment to a sequence property leaves the pair bound to the
\* container it had (one is built only for a pair that had none), with the
\* callbacks registered on it before, in their order; the container's list
\* holds the elements assigned, none for None and for an empty sequence; the
\* callbacks have been notified by the assignment, and a later append notifies
\* them too.
C16_AssignKeepsContainer ==
    /\ (pw.op = "setattr" /\ pw.prop = "history") =>
          /\ data["history"][pw.inst] = pw.ret
          /\ pw.had => pw.ret = pw.kold /\ Len(obs) = pw.nobs
          /\ obs[pw.ret].kind = "list"
          /\ obs[pw.ret].cbs = pw.cbs
          /\ Contents(pw.ret) = Elements(w.arg)
          /\ \A j \in 1..Len(pw.cbs) : pw.cbs[j] \in DOMAIN got /\ got[pw.cbs[j]][Len(got[pw.cbs[j]])] = Snap(Elements(w.arg))
    /\ (pw.op = "append" /\ pw.had) =>
          /\ pw.ret = pw.kold
          /\ obs[pw.ret].cbs = pw.cbs
          /\ got = Received(pw.cbs, <<Snap(Contents(pw.ret))>>)

\* C16 witness: a sequence property that held an element and had a callback
\* was assigned None; the callback was notified with the empty contents.
C16_Witness ==
    /\ pw.op = "setattr"
    /\ pw.prop = "history"
    /\ pw.had
    /\ w.arg = None
    /\ w.old # Snap(<<>>)
    /\ pw.cbs = <<"f">>
    /\ Contents(pw.ret) = <<>>
    /\ "f" \in DOMAIN got

\* C16 witness: a sequence property with a callback was assigned an empty
\* sequence, then appended to.
C16_WitnessAppend ==
    /\ pw.op = "append"
    /\ pw.cbs = <<"f">>
    /\ Contents(pw.ret) = <<"b">>
    /\ got["f"] = <<Snap(<<"b">>)>>

\* The value container k reads as in the containers h and the lists l.
ValueIn(h, l, k) == IF h[k].kind = "list" THEN Snap(l[h[k].value.v]) ELSE h[k].value

\* C21: when Model.__init__ returns, each state property the class of the
\* instance declares has a container in the descriptor's map for that
\* instance, built by the constructor and holding the declared initial value;
\* the containers that existed before are as they were and no callback was
\* invoked.
C21_ConstructMaterializes ==
    [][pw'.op = "construct" =>
          /\ \A j \in DOMAIN Declared(cls'[pw'.inst]) :
                \E p \in {Declared(cls'[pw'.inst])[j]} :
                   /\ pw'.inst \in DOMAIN data'[p]
                   /\ data'[p][pw'.inst] > Len(obs)
                   /\ ValueIn(obs', lists', data'[p][pw'.inst]) = DeclaredValue(p)
                   /\ obs'[data'[p][pw'.inst]].cbs = <<>>
          /\ SubSeq(obs', 1, Len(obs)) = obs
          /\ got' = NoCalls]_vars

\* C21 witness: an instance of the declaring class was constructed while a
\* callback was registered on a container of the other instance.
C21_Witness ==
    /\ pw.op = "construct"
    /\ pw.inst = "A"
    /\ cls["A"] = "M"
    /\ declared = <<"a">>
    /\ Has("A", "count") /\ Has("A", "history")
    /\ Field("A", "history") = Snap(<<"a">>)
    /\ Has("B", "history")
    /\ obs[data["history"]["B"]].cbs = <<"g">>
    /\ pw.nobs = 2

\* An assignment of a plain sequence, of None, of the property's own
\* container, or an in-place extension of a sequence property was made.
ListAssigned == pw.op \in {"setattr", "setattr_self", "iadd"} /\ pw.prop = "history"

\* The elements the value assigned held when the assignment began.
ElementsBefore ==
    IF pw.op = "setattr" THEN Elements(w.arg)
    ELSE IF pw.op = "setattr_self" THEN w.old.s
    ELSE w.old.s \o w.arg.s

\* C28 (as claimed): an assignment to a sequence property leaves it holding
\* the elements the assigned value held before the assignment, also when the
\* value is the property's own container (m.items = m.items) and after an
\* in-place extension (m.items += values).
C28_AssignKeepsElements ==
    ListAssigned => Contents(pw.ret) = ElementsBefore

\* C28, the part that holds: the assignment of a plain sequence or of None.
C28_HoldsForPlainSequences ==
    (ListAssigned /\ pw.op = "setattr") => Contents(pw.ret) = ElementsBefore

\* C28, the failing cases reached: the property assigned to itself and the
\* property extended in place end empty.
C28_SelfAssignmentEmpties ==
    /\ pw.op = "setattr_self"
    /\ w.old = Snap(<<"a", "b">>)
    /\ Contents(pw.ret) = <<>>

C28_InPlaceExtendEmpties ==
    /\ pw.op = "iadd"
    /\ w.old = Snap(<<"a">>)
    /\ w.fired = <<Snap(<<"a", "b">>), Snap(<<>>), Snap(<<>>)>>
    /\ Contents(pw.ret) = <<>>

\* C30 (as claimed): an assignment of a sequence to a sequence property
\* invokes each registered callback exactly once, with the contents the
\* property ends with; no callback receives the emptied list in between.
C30_AssignNotifiesOnce ==
    (ListAssigned /\ pw.op = "setattr" /\ w.arg.t = "seq") =>
        \A j \in 1..Len(pw.cbs) : pw.cbs[j] \in DOMAIN got /\ got[pw.cbs[j]] = <<Snap(Contents(pw.ret))>>

\* C30, what the code does: the callbacks are invoked twice, first with the
\* emptied list, then with the final contents; an assignment of None invokes
\* them once, with the empty contents.
C30_ClearThenExtend ==
    (ListAssigned /\ pw.op = "setattr") =>
        /\ w.arg.t = "seq" => w.fired = <<Snap(<<>>), Snap(Contents(pw.ret))>>
        /\ w.arg = None => w.fired = <<Snap(<<>>)>>
        /\ got = Received(obs[pw.ret].cbs, w.fired)

C30_IntermediateEmptySeen ==
    /\ pw.op = "setattr"
    /\ w.arg = Snap(<<"b">>)
    /\ w.old = Snap(<<"a">>)
    /\ got = [c \in {"f"} |-> <<Snap(<<>>), Snap(<<"b">>)>>]

(***************************************************************************)
(* Claims about the counter example (SpecCounter)                          *)
(***************************************************************************)

\* What the plain operation gives: old OP other, nan absorbing.
PlainResult(op, a, b) == IF a.t = "nan" \/ b.t = "nan" THEN NaN ELSE PyInt(IntOp(op, a.v, b.v))

Plainly(v) == v.t \in {"int", "nan"}

FreshModel == [count |-> PyInt(0), history |-> <<>>]

\* An in-place operation op on the count attribute has just run on a plain
\* value: it acted as set(old OP other) does.
ActsAsSet(op) ==
    LET res == PlainResult(op, before.count, w.arg)
    IN  /\ w.exc = "none"
        /\ Field("A", "count") = res
        /\ w.fired = (IF plain_ne(before.count, res) THEN <<res>> ELSE <<>>)

\* Dispatching INCREMENT with amount 5 on the new model has left count 5 and
\* history ["Incremented by 5"], f and g having been invoked once each.
Scenario ==
    (w.op = "increment" /\ w.arg = PyInt(5) /\ before = FreshModel) =>
        /\ Field("A", "count") = PyInt(5)
        /\ Field("A", "history") = Snap(<<"Incremented by 5">>)
        /\ got = [cb \in {"f", "g"} |-> IF cb = "f" THEN <<PyInt(5)>> ELSE <<Snap(<<"Incremented by 5">>)>>]

\* C7: in the counter scenario, dispatching INCREMENT with amount 5 on the new
\* model leaves count 5 and history ["Incremented by 5"], with one
\* notification on count and one on history; and every in-place operation on
\* the count attribute acts as set(old OP other): the plain result is stored,
\* and it is notified once if it differs from the old value, not at all if not.
C7_InPlaceIsSet ==
    /\ Scenario
    /\ (w.op = "increment" /\ Plainly(before.count)) => ActsAsSet("+")
    /\ (w.op \in InPlaceOps /\ Plainly(before.count)) => ActsAsSet(w.op)

\* The part of C7 that holds: the scenario, and the in-place operations whose
\* old value and operand are ints.
C7_HoldsOnInts ==
    /\ Scenario
    /\ (w.op = "increment" /\ before.count.t = "int" /\ w.arg.t = "int") =>
        /\ ActsAsSet("+")
        /\ Field("A", "history") = Snap(Append(before.history, Log(w.arg)))
    /\ (w.op \in InPlaceOps /\ before.count.t = "int" /\ w.arg.t = "int") => ActsAsSet(w.op)

C7_ScenarioReached ==
    /\ w.op = "increment"
    /\ w.arg = PyInt(5)
    /\ before = FreshModel
    /\ Field("A", "count") = PyInt(5)

\* The container of count holds itself.
C7_SelfReference == obs[data["count"]["A"]].value = Ref(data["count"]["A"])

(***************************************************************************)
(* Claims about the synchronous call model, checked under SpecSync         *)
(***************************************************************************)

\* The number of times the command runs in a dispatch of the last event: once
\* for each wrapper registered under the name, and once for each wrapper
\* under INCREMENT when the relaying listener is registered under the name.
Runs ==
    Cardinality({c \in Before : c.kind = "lambda"})
      + (IF Cb("chain") \in Before
         THEN Cardinality({c \in last.before["INCREMENT"] : c.kind = "lambda"})
         ELSE 0)

Amount == IF "amount" \in DOMAIN last.data THEN last.data["amount"] ELSE PyInt(1)

\* The counts the model goes through in n runs from count c.
RECURSIVE CountsFrom(_, _)
CountsFrom(c, n) == IF n = 0 THEN <<>> ELSE <<PyInt(c + Amount.v)>> \o CountsFrom(c + Amount.v, n - 1)

\* The histories the model goes through in n runs from history h.
RECURSIVE HistoriesFrom(_, _)
HistoriesFrom(h, n) ==
    IF n = 0 THEN <<>> ELSE <<Snap(Append(h, Log(Amount)))>> \o HistoriesFrom(Append(h, Log(Amount)), n - 1)

\* The last call is a dispatch that has returned: the model has not been
\* assigned to since.
Returned == last.op = "dispatch" /\ last.status = "returned" /\ w.op = "init"

\* C18: when a dispatch made through the context has returned, no dispatch is
\* running, every listener registered for the name has been invoked, the
\* command has run once for every wrapper reached, directly or through the
\* event dispatched from a listener, the model holds the result of all the
\* runs, the change callbacks have received every change the runs made, and
\* no container holds a pending notification.
C18_DispatchIsSynchronous ==
    Returned =>
        /\ stack = <<>>
        /\ DOMAIN calls = Before
        /\ IF Runs = 0 THEN execs = NoCalls
           ELSE /\ DOMAIN execs = {"inc"}
                /\ execs["inc"] = [j \in 1..Runs |-> last.data]
        /\ Snapshot(St, "A").count = PyInt(before.count.v + Runs * Amount.v)
        /\ Runs > 0 => Snap(Snapshot(St, "A").history) = HistoriesFrom(before.history, Runs)[Runs]
        /\ got = DeliverAll(DeliverAll(NoCalls, <<"f">>, IF Amount.v = 0 THEN <<>> ELSE CountsFrom(before.count.v, Runs)),
                            <<"g">>, HistoriesFrom(before.history, Runs))
        /\ \A k \in 1..Len(obs) : ~obs[k].pending /\ ~obs[k].batch

\* C18 witness: a dispatch of RELAY has returned; the command ran twice, once
\* from the event the relaying listener dispatched, and f and g received both
\* changes.
C18_Witness ==
    /\ Returned
    /\ last.name = "RELAY"
    /\ Runs = 2
    /\ Amount = PyInt(1)
    /\ "f" \in DOMAIN got
    /\ Len(got["f"]) = 2
    /\ Len(got["g"]) = 2

(***************************************************************************)
(* Claims about Model.on_change, checked under SpecWatch                   *)
(***************************************************************************)

\* The classes a class inherits from, itself included.
Mro(c) == IF c = "Sub" THEN {"Sub", "M"} ELSE {c}

\* The name is a state property the instance's class or a parent declares.
DeclaredStateProperty(c, name) ==
    \E k \in Mro(c) : name \in DOMAIN ClassDict(k) /\ ClassDict(k)[name] = "StateProperty"

\* C19: a call of Model.on_change with a name that no class of the instance
\* declares, or that names an attribute which is no state property, raises
\* SwallowStateError, whatever the callback, and changes no container: no
\* callback is registered, no container is built, no decorator is returned.
C19_UnknownPropertyRaises ==
    [][(w'.op = "model.on_change" /\ ~DeclaredStateProperty(cls'[pw'.inst], pw'.prop)) =>
          /\ w'.exc = "SwallowStateError"
          /\ w'.ret = "None"
          /\ obs' = obs
          /\ data' = data
          /\ decorators' = decorators]_vars

\* C19 witness: on_change was called with the name of a method on an instance
\* whose containers exist, and raised.
C19_Witness ==
    /\ w.op = "model.on_change"
    /\ pw.prop = "increment"
    /\ cls[pw.inst] = "M"
    /\ w.arg = CbArg("f")
    /\ w.exc = "SwallowStateError"
    /\ Registered(obs) = 1

\* The callback of the last call of on_change or of a decorator.
Given == w.arg.s[1]

\* C20: for a state property the class of the instance declares,
\* on_change(name, cb) with a callable leaves the chain with cb appended and
\* returns cb; on_change(name) leaves the chain as it was and returns a
\* decorator; the decorator called with a callable leaves the chain with it
\* appended, as the direct form does, and returns it; either form given what
\* is not callable raises SwallowStateError and leaves the chain as it was.
C20_FormsEquivalent ==
    /\ (w.op = "model.on_change" /\ find_descriptor(cls[pw.inst], pw.prop) = "none") =>
          /\ w.k = data[pw.prop][pw.inst]
          /\ Given \in Watchers =>
                w.exc = "none" /\ w.ret = Given /\ obs[w.k].cbs = Append(w.cbs, Given)
          /\ Given = Absent =>
                w.exc = "none" /\ w.ret = "decorator" /\ obs[w.k].cbs = w.cbs
                  /\ [inst |-> pw.inst, prop |-> pw.prop] \in decorators
          /\ Given = NotCallable =>
                w.exc = "SwallowStateError" /\ obs[w.k].cbs = w.cbs
    /\ w.op = "decorator" =>
          /\ w.k = data[pw.prop][pw.inst]
          /\ Given \in Watchers =>
                w.exc = "none" /\ w.ret = Given /\ obs[w.k].cbs = Append(w.cbs, Given)
          /\ Given \notin Watchers =>
                w.exc = "SwallowStateError" /\ obs[w.k].cbs = w.cbs
    /\ w.op \in {"model.on_change", "decorator"} => got = NoCalls

\* C20 witness: a decorator registered g on a chain that held f, which the
\* direct form had registered.
C20_Witness ==
    /\ w.op = "decorator"
    /\ w.cbs = <<"f">>
    /\ w.ret = "g"
    /\ obs[w.k].cbs = <<"f", "g">>

\* C20 witness: a decorator was given a value that is not callable.
C20_WitnessNotCallable ==
    /\ w.op = "decorator"
    /\ Given = NotCallable
    /\ w.exc = "SwallowStateError"

\* The chain of the pair the last call was about, after the call.
ChainAfter == IF Has(pw.inst, pw.prop) THEN obs[data[pw.prop][pw.inst]].cbs ELSE <<>>

\* C24 (as claimed): StateProperty.on_change(instance, callback) given no
\* callback or a value that is not callable raises and leaves the chain of the
\* instance's container as it was; given a callable it appends it to the chain.
C24_RegisterChangeValidates ==
    w.op = "sp.on_change" =>
        IF Given \in Watchers
        THEN w.exc = "none" /\ ChainAfter = Append(w.cbs, Given)
        ELSE w.exc # "none" /\ ChainAfter = w.cbs

\* C24, the part that holds: the call given None raises SwallowStateError and
\* leaves the chain as it was, and the call given a callable registers it.
C24_HoldsForNoneAndCallables ==
    (w.op = "sp.on_change" /\ Given # NotCallable) =>
        IF Given \in Watchers
        THEN w.exc = "none" /\ ChainAfter = Append(w.cbs, Given) /\ w.ret = Given
        ELSE w.exc = "SwallowStateError" /\ ChainAfter = w.cbs

\* The non-callable value is in a chain and a write that notifies has raised.
C24_NotCallableRegistered ==
    /\ w.op = "setattr"
    /\ w.exc = "TypeError"
    /\ obs[data["count"]["A"]].cbs = <<"f", NotCallable>>
    /\ got = [c \in {"f"} |-> <<PyInt(1)>>]

\* What C33 asks of an instance whose class is in the set classes.
InheritedDeclared(classes) ==
    /\ (pw.op = "construct" /\ cls[pw.inst] \in classes) =>
          \A p \in Props : DeclaredStateProperty(cls[pw.inst], p) => Has(pw.inst, p)
    /\ (/\ w.op = "model.on_change" /\ cls[pw.inst] \in classes
        /\ DeclaredStateProperty(cls[pw.inst], pw.prop) /\ Given \in Watchers) =>
          /\ w.exc = "none"
          /\ w.ret = Given
          /\ ChainAfter = Append(w.cbs, Given)

\* C33: a state property declared on a parent model type is a declared field
\* of every subtype: constructing an instance of the subtype materializes it
\* before the constructor returns, and on_change(name, callback) on that
\* instance registers the callback instead of raising SwallowStateError.
C33_InheritedPropertyIsDeclared == InheritedDeclared({"M", "Sub"})

\* C33 holds for instances of the class that declares the state properties.
C33_HoldsForDeclaringClass == InheritedDeclared({"M"})

\* C33 fails: Sub() returned with no container for the count its parent
\* declares, type(self).__dict__ of Sub holding no state property.
C33_SubtypeNotMaterialized ==
    /\ pw.op = "construct"
    /\ cls[pw.inst] = "Sub"
    /\ DeclaredStateProperty("Sub", "count")
    /\ ~Has(pw.inst, "count")

\* C33 fails: on_change("count", f) on an instance of Sub raised
\* SwallowStateError and registered nothing.
C33_SubtypeOnChangeRaises ==
    /\ w.op = "model.on_change"
    /\ cls[pw.inst] = "Sub"
    /\ pw.prop = "count"
    /\ Given = "f"
    /\ w.exc = "SwallowStateError"
    /\ ChainAfter = <<>>

(***************************************************************************)
(* Claims about change callbacks that raise, checked under SpecRaise       *)
(***************************************************************************)

\* The position in the chain cbs of the first callback that raises.
FirstRaiser(cbs) == CHOOSE j \in 1..Len(cbs) : call_raises(cbs[j]) # "none" /\ \A i \in 1..(j - 1) : call_raises(cbs[i]) = "none"

\* The last write notified a chain in which a callback raises.
RaisedInChain == w.fired # <<>> /\ chain_raises(w.cbs) # "none"

\* The state the last write asked for.
Written ==
    IF w.op = "append" THEN Snap(Append(w.old.s, w.arg.s[1]))
    ELSE IF w.op = "clear" THEN Snap(<<>>)
    ELSE w.arg

\* C34: if a change callback raises during the notification of a scalar set
\* or of a list mutation, the new state stays stored, the callbacks registered
\* before it and the raising one have been handed the new state, those
\* registered after it are not invoked, and the exception leaves the write;
\* when the write is made by a command that a dispatch runs, the rest of the
\* command is skipped and the dispatch returns normally.
C34_CallbackRaisePropagates ==
    /\ (w.op \in {"setattr", "append", "clear"} /\ RaisedInChain) =>
          /\ w.exc = chain_raises(w.cbs)
          /\ ValueIn(obs, lists, w.k) = Written
          /\ \A j \in 1..Len(w.cbs) :
                IF j <= FirstRaiser(w.cbs)
                THEN w.cbs[j] \in DOMAIN got /\ got[w.cbs[j]] = <<Written>>
                ELSE w.cbs[j] \notin DOMAIN got
    /\ (w.op = "increment" /\ last.name = "INCREMENT" /\ RaisedInChain) =>
          /\ last.status = "returned"
          /\ stack = <<>>
          /\ w.exc = chain_raises(w.cbs)
          /\ Snapshot(St, "A").count = w.fired[1]
          /\ Snapshot(St, "A").count # before.count
          /\ Snapshot(St, "A").history = before.history
          /\ \A j \in 1..Len(w.cbs) :
                IF j <= FirstRaiser(w.cbs)
                THEN w.cbs[j] \in DOMAIN got /\ got[w.cbs[j]] = w.fired
                ELSE w.cbs[j] \notin DOMAIN got

\* C34 witness: model.count = 1 on the chain f, boom, g: 1 is stored, f and
\* boom were handed 1, g was not invoked, RuntimeError left the assignment.
C34_Witness ==
    /\ w.op = "setattr"
    /\ w.cbs = <<"f", "boom", "g">>
    /\ w.exc = "RuntimeError"
    /\ obs[w.k].value = PyInt(1)
    /\ got = [cb \in {"f", "boom"} |-> <<PyInt(1)>>]

\* C34 witness: model.history.append("a") on the chain f, boom, g.
C34_WitnessList ==
    /\ w.op = "append"
    /\ w.cbs = <<"f", "boom", "g">>
    /\ w.exc = "RuntimeError"
    /\ Contents(w.k) = Append(w.old.s, "a")
    /\ DOMAIN got = {"f", "boom"}

\* C34 witness: a dispatch of INCREMENT with amount 5 returned; the count is
\* stored, the chain stopped at boom, and the history was not appended to.
C34_WitnessCommand ==
    /\ w.op = "increment"
    /\ last.status = "returned"
    /\ w.cbs = <<"f", "boom", "g">>
    /\ w.arg = PyInt(5)
    /\ w.exc = "RuntimeError"
    /\ Snapshot(St, "A").count = PyInt(5)
    /\ Snapshot(St, "A").history = before.history
    /\ DOMAIN got = {"f", "boom"}

(***************************************************************************)
(* Claims about the names of events, checked under SpecNames               *)
(***************************************************************************)

\* An event with the name of the last call exists.
Constructed(n) == \E e \in DOMAIN events : events[e].name = n

\* C35: every event that can be constructed can be listened for: a name that
\* Event accepts is accepted by add_listener and by remove_listener, and a
\* name they reject is rejected by Event, names made only of whitespace
\* included.
C35_NamesAgree ==
    /\ (last.op = "Event" /\ last.status = "returned") =>
          /\ add_listener_call(listeners, last.name, OkCb).exc = "none"
          /\ remove_listener(listeners, last.name, OkCb).exc = "none"
    /\ (last.op \in {"add", "remove"} /\ Constructed(last.name)) => last.status = "returned"
    /\ (last.op \in {"add", "remove"} /\ last.status # "returned") => Event_new(last.name, Omitted).exc # "none"

\* C35 holds for every name but those made only of whitespace.
C35_HoldsButForWhitespace ==
    (last.name # " ") => C35_NamesAgree

\* C35 fails: Event(" ") was constructed, and add_listener(" ", callback)
\* raised SwallowArgumentError.
C35_WhitespaceEventUnheard ==
    /\ Constructed(" ")
    /\ last.op = "add"
    /\ last.name = " "
    /\ last.status = "SwallowArgumentError"
    /\ " " \notin DOMAIN listeners

(***************************************************************************)
(* Claims about a scalar assigned from another model, under SpecAssign     *)
(***************************************************************************)

\* What a scalar value reads as: an ObservableValue compares, prints and
\* computes as the value it holds.
RECURSIVE Reads(_, _, _)
Reads(h, v, fuel) == IF v.t = "obs" /\ fuel > 0 THEN Reads(h, h[v.v].value, fuel - 1) ELSE v

\* Instance i has a count in both states of a step and reads differently.
ReadsDifferently(i, h, hh, d, dd) ==
    /\ i \in DOMAIN d["count"] /\ i \in DOMAIN dd["count"]
    /\ Reads(h, h[d["count"][i]].value, RecLimit) # Reads(hh, hh[dd["count"][i]].value, RecLimit)

\* C37: what the count of a model reads changes only in a write to that
\* count, and such a write notifies its callbacks; the container never holds
\* another observable, so a write to b.count after a.count = b.count leaves
\* what a.count reads.
C37_ChangesOnlyThroughOwnSetter ==
    [][/\ \A i \in Insts : ReadsDifferently(i, obs, obs', data, data') =>
              /\ pw'.op \in {"setattr", "setattr_from"}
              /\ pw'.inst = i
              /\ w'.fired # <<>>
       /\ \A k \in 1..Len(obs') : obs'[k].kind = "value" => obs'[k].value.t # "obs"]_vars

\* C37 holds as long as no count is assigned from another observable: every
\* change of what a count reads is a write to it that notifies.
C37_HoldsForPlainValues ==
    [][(\A k \in 1..Len(obs') : obs'[k].kind = "value" => obs'[k].value.t # "obs") =>
          \A i \in Insts : ReadsDifferently(i, obs, obs', data, data') =>
              /\ pw'.op \in {"setattr", "setattr_from"}
              /\ pw'.inst = i
              /\ w'.fired # <<>>]_vars

\* C37 fails: after a.count = b.count the container of A holds the container
\* of B, f was handed that container, and b.count = 2 has changed what a.count
\* reads without a call of f.
C37_AliasFollowsOther ==
    /\ Has("A", "count") /\ Has("B", "count")
    /\ pw.op = "setattr" /\ pw.inst = "B"
    /\ w.arg = PyInt(2)
    /\ obs[data["count"]["A"]].value = Ref(data["count"]["B"])
    /\ obs[data["count"]["A"]].cbs = <<"f">>
    /\ Reads(obs, obs[data["count"]["A"]].value, RecLimit) = PyInt(2)
    /\ "f" \notin DOMAIN got

(***************************************************************************)
(* Claims about contexts that share a dispatcher, checked under SpecShare  *)
(***************************************************************************)

\* The number of times cmd was mapped to the name of the last call through
\* one of the contexts cs.
MappedThrough(cs, cmd) ==
    (IF "ctx" \in cs THEN maps["ctx", last.name, cmd] ELSE 0)
    + (IF "peer" \in cs THEN maps["peer", last.name, cmd] ELSE 0)
    + (IF "other" \in cs THEN maps["other", last.name, cmd] ELSE 0)

\* The contexts whose mappings the last dispatch reaches: those built on the
\* dispatcher it went to.
Reached == IF last.cb.kind \in {"ctx", "peer", "dispatcher"} THEN {"ctx", "peer"} ELSE {"other"}

\* C38: a dispatch through a context, or on the dispatcher itself, executes
\* with the event's payload every command that was mapped once to the event's
\* name through any context built on the same dispatcher, each once, and none
\* of the commands mapped only through a context built on another dispatcher.
C38_SharedDispatcherSharesMappings ==
    last.op = "dispatch" =>
        \A cmd \in Cmds :
            /\ MappedThrough(Reached, cmd) = 1 => cmd \in DOMAIN execs /\ execs[cmd] = <<last.data>>
            /\ MappedThrough(Reached, cmd) = 0 => cmd \notin DOMAIN execs

\* C38 witnesses: c1 was mapped to the name through "peer" only and c2
\* through "other" only; a dispatch through "ctx" executed c1 and not c2, ...
C38_Witness ==
    /\ last.op = "dispatch"
    /\ last.cb = Via("ctx")
    /\ MappedThrough({"peer"}, "c1") = 1 /\ MappedThrough({"ctx", "other"}, "c1") = 0
    /\ MappedThrough({"other"}, "c2") = 1 /\ MappedThrough({"ctx", "peer"}, "c2") = 0
    /\ execs = [cmd \in {"c1"} |-> <<last.data>>]

\* ... a dispatch on the dispatcher itself executed the commands mapped
\* through "ctx" and through "peer", ...
C38_WitnessDirect ==
    /\ last.op = "dispatch"
    /\ last.cb = Via("dispatcher")
    /\ MappedThrough({"ctx"}, "c1") = 1 /\ MappedThrough({"peer"}, "c1") = 0
    /\ MappedThrough({"peer"}, "c2") = 1 /\ MappedThrough({"ctx"}, "c2") = 0
    /\ execs = [cmd \in Cmds |-> <<last.data>>]

\* ... and a dispatch through "other" executed c2 and not c1.
C38_WitnessOther ==
    /\ last.op = "dispatch"
    /\ last.cb = Via("other")
    /\ MappedThrough({"peer"}, "c1") = 1 /\ MappedThrough({"other"}, "c1") = 0
    /\ MappedThrough({"other"}, "c2") = 1
    /\ execs = [cmd \in {"c2"} |-> <<last.data>>]

====
